---- MODULE Spec2Model ----
(***************************************************************************)
(* Model of the image generation pipeline of src/index.tsx (the version    *)
(* that starts at line 420): generateImages with its two model paths, the  *)
(* prompt diversifier, captioning, the history ledger and the detached     *)
(* database save.  One action is one run of the code between two awaits.   *)
(* Unit indices are 1-based here (index i of the code is i+1).             *)
(*                                                                         *)
(* Specifications:                                                         *)
(*   Spec        one run from the loaded page, with the detached saves     *)
(*   SpecImagen  one run on the image model path, with the load and error  *)
(*               events of the image elements                              *)
(*   SpecGemini  the same on the multimodal path                           *)
(*   SpecLedger  runs one after the other under a moving clock, from a     *)
(*               page loaded with any text in storage                      *)
(*   SpecPure    saveImageToDatabase and the scan of the parts of a        *)
(*               response, each applied once to an argument                *)
(***************************************************************************)
EXTENDS Integers, Sequences, FiniteSets, TLC

\* ------------------------------------------------------------------ bounds
MaxCount == 2      \* largest value typed into the number-of-images input
MaxParts == 2      \* most parts in one multimodal response
MaxPromptLen == 51 \* length of the longest prompt handed to the classifier
MaxStored == 1     \* most elements of a list found in storage when the page loads
MaxLedger == 2     \* no run is started once the ledger holds this many elements
MaxNow == 2        \* the clock stops here
MaxRuns == 1         \* successful runs of a page whose ledger can be cleared
MaxArchives == 1     \* no download is started once the browser got this many archives

\* ------------------------------------------------------- program constants
GEMINI == "gemini-2.5-flash-image-preview"
IMAGEN == "imagen-4.0-generate-001"
Models == {GEMINI, IMAGEN}

CAPTION_NOT_AVAILABLE == "Caption not available."
GENERATING_CAPTION    == "Generating caption..."
MSG_ENTER_PROMPT      == "Please enter a prompt."
MSG_INVALID_DIVERSE   == "Failed to generate a valid set of diverse prompts."
MSG_NO_IMAGE          == "Model did not return an image for this prompt."
MSG_COULD_NOT_GENERATE == "Could not generate images."
MSG_SAVE_HISTORY      == "Could not save history. Your browser's storage might be full."
MSG_COULD_NOT_CAPTION == "Could not generate caption."
MSG_ERROR_LOADING     == "Error loading image."
ERR_NO_CONTAINER      == "Cannot read properties of undefined"   \* TypeError on placeholders[i]
TITLE_MAX == 50       \* prompt.substring(0, 50)
GENERATE_LABEL        == "Generate"
GENERATING_LABEL      == "Generating..."

\* gallery texts written with innerHTML
GALLERY_WELCOME        == "Your generated images will appear here."
GALLERY_FAILED_RESULTS == "Image generation failed to produce results. Please try a different prompt."
GALLERY_FAILED_TOP     == "Image generation failed. Please check the console and try again."

\* ------------------------------------------------- values of the environment
BasePrompts == {"", "fox"}                 \* what the prompt field can hold
Variants    == {"dawn", "night"}           \* strings a diversifier can return
Images      == {"imgA", "imgB"}            \* base64 payloads a model can return
Counts      == 1..MaxCount
ERR_NETWORK == "network error"             \* message of an error raised by a backing call
ERR_JSON    == "Unexpected token"          \* message of the SyntaxError of JSON.parse
ERR_RANGE   == "Invalid array length"      \* message of the RangeError of Array(n), n < 0
BadCounts   == {-1, 0}                     \* parseInt results below 1; NaN fails every
                                           \* comparison and Array(NaN) raises, as -1 does

Other(v) == IF v = "dawn" THEN "night" ELSE "dawn"

\* a list of len alternating variants starting with first
VariantList(first, len) ==
    [j \in 1..len |-> IF j % 2 = 1 THEN first ELSE Other(first)]

\* responses of the text model to the diversifier request for n prompts:
\* the call raises, the text is not JSON, the JSON has no prompts field, the
\* field is not an array, or it is an array of 0..n+1 strings
DivResponses(n) ==
    {[kind |-> "raise", prompts |-> <<>>],
     [kind |-> "malformed", prompts |-> <<>>],
     [kind |-> "noprompts", prompts |-> <<>>],
     [kind |-> "notarray", prompts |-> <<>>]}
    \cup {[kind |-> "array", prompts |-> VariantList(f, len)] :
              f \in Variants, len \in 0..(n + 1)}

\* parts of a multimodal response
TextPart(t)     == [text |-> t, data |-> "", mime |-> ""]
ImagePart(d, m) == [text |-> "", data |-> d, mime |-> m]
Parts == {TextPart("capA"), ImagePart("imgA", "image/png"), ImagePart("imgB", "image/jpeg")}

SeqsUpTo(S, n) == UNION {[1..k -> S] : k \in 0..n}

\* responses of the multimodal model: the call raises or returns parts
SeqResponses ==
    {[kind |-> "raise", parts |-> <<>>]}
    \cup {[kind |-> "ok", parts |-> ps] : ps \in SeqsUpTo(Parts, MaxParts)}

GenImage(d) == [imageBytes |-> d, mimeType |-> "image/png"]
NoImage     == [imageBytes |-> "", mimeType |-> ""]

\* responses of the image model asked for n images: raises or returns 0..n images
BulkResponses(n) ==
    {[kind |-> "raise", generatedImages |-> <<>>]}
    \cup {[kind |-> "ok", generatedImages |-> [j \in 1..k |-> GenImage(im[j])]] :
              k \in 0..n, im \in [1..n -> Images]}

\* responses of the vision model to a caption request: raises, or a text
\* (possibly empty)
CaptionResponses ==
    {[kind |-> "raise", text |-> ""], [kind |-> "ok", text |-> "capV"],
     [kind |-> "ok", text |-> ""]}

\* prompts handed to the classifier on its own: of TITLE_MAX characters and
\* of the largest length
PROMPT_50   == "prompt of 50 characters"
PROMPT_LONG == "prompt of the largest length"

\* the characters of a string of the model, as character codes
Chars(str) ==
    CASE str = ""      -> <<>>
      [] str = "fox"   -> <<102, 111, 120>>
      [] str = "dawn"  -> <<100, 97, 119, 110>>
      [] str = "night" -> <<110, 105, 103, 104, 116>>
      [] str = PROMPT_50   -> [k \in 1..TITLE_MAX |-> 97 + (k % 26)]
      [] str = PROMPT_LONG -> [k \in 1..MaxPromptLen |-> 97 + (k % 26)]

\* responses of the text model to the metadata request: the call raises, the
\* text is not JSON, or it is the JSON of a title and a category; absent: the
\* fields the parsed object does not have
MetaResponses ==
    {[kind |-> "raise", title |-> <<>>, category |-> "", absent |-> {}],
     [kind |-> "malformed", title |-> <<>>, category |-> "", absent |-> {}],
     [kind |-> "ok", title |-> <<65>>, category |-> "Nature", absent |-> {}]}

\* responses whose text is JSON of another shape: an object without the
\* title, without the category, without both, and the text "null"
OddMetaResponses ==
    {[kind |-> "ok", title |-> <<>>, category |-> "Nature", absent |-> {"title"}],
     [kind |-> "ok", title |-> <<65>>, category |-> "", absent |-> {"category"}],
     [kind |-> "ok", title |-> <<>>, category |-> "", absent |-> {"title", "category"}],
     [kind |-> "null", title |-> <<>>, category |-> "", absent |-> {"title", "category"}]}

\* ------------------------------------------------------------ pure helpers
\* mutant: the validation accepts every prompt
Validate_acceptsAll(value) == TRUE

\* generateImages, the validation of the prompt field
Validate(value) == value # ""

\* generateImages, the condition under which the diversifier is called:
\* line 833 on the multimodal path, line 928 on the image model path
UseDiversifier(model, checked, n) ==
    IF model = GEMINI THEN checked /\ n > 1 ELSE checked

\* mutant: one entry too many
ConstantPlan_oneMore(p, n) == [j \in 1..(n + 1) |-> p]

\* Array(numberOfImages).fill(prompt)
ConstantPlan(p, n) == [j \in 1..n |-> p]

\* mutant: an invalid response yields an empty list instead of an error
getDiversePrompts_noThrow(resp) ==
    IF resp.kind = "array"
    THEN [threw |-> FALSE, message |-> "", prompts |-> resp.prompts]
    ELSE [threw |-> FALSE, message |-> "", prompts |-> <<>>]

\* getDiversePrompts: what the function does with the response of the text
\* model: it throws (threw, with the message of the error) or returns prompts
getDiversePrompts(resp) ==
    CASE resp.kind = "raise"     -> [threw |-> TRUE, message |-> ERR_NETWORK, prompts |-> <<>>]
      [] resp.kind = "malformed" -> [threw |-> TRUE, message |-> ERR_JSON, prompts |-> <<>>]
      [] resp.kind = "array" /\ Len(resp.prompts) > 0
                                 -> [threw |-> FALSE, message |-> "", prompts |-> resp.prompts]
      [] OTHER                   -> [threw |-> TRUE, message |-> MSG_INVALID_DIVERSE, prompts |-> <<>>]

\* mutant: the returned prompts are used in reverse order
DiversePlan_reversed(prompts) ==
    [j \in 1..Len(prompts) |-> prompts[Len(prompts) + 1 - j]]

\* the plan made of the prompts the diversifier returned
DiversePlan(prompts) == prompts

\* the scan of the parts of a multimodal response
RECURSIVE ScanFrom(_, _, _, _)
ScanFrom(parts, j, img, cap) ==
    IF j > Len(parts) THEN [imageBase64 |-> img, captionText |-> cap]
    ELSE IF parts[j].text # "" THEN ScanFrom(parts, j + 1, img, parts[j].text)
    ELSE IF parts[j].data # "" THEN ScanFrom(parts, j + 1, parts[j].data, cap)
    ELSE ScanFrom(parts, j + 1, img, cap)

ScanParts(parts) == ScanFrom(parts, 1, "", CAPTION_NOT_AVAILABLE)

\* parts.find(p => p.inlineData)?.inlineData?.mimeType || 'image/png'
FindMime(parts) ==
    LET withData == {j \in DOMAIN parts : parts[j].data # ""}
        first == CHOOSE j \in withData : \A k \in withData : j <= k
    IN  IF withData = {} \/ parts[first].mime = "" THEN "image/png"
        ELSE parts[first].mime

\* the response carries an image part (what the model returned)
HasImagePart(parts) == \E j \in DOMAIN parts : parts[j].data # ""

\* mutant: every response that arrived counts as an image
GotImage_anyResponse(kind, imageBase64) == kind = "ok"

\* if (imageBase64) after the scan of a response that arrived
GotImage(kind, imageBase64) == kind = "ok" /\ imageBase64 # ""

\* gallery containers
\* kind: what the container shows; loading: the class 'loading'; img: the
\* state of the image element ("none", "pending", "captioning", "loaded");
\* onload: the handler set on it ("none", "finish", "caption"); capCall: how
\* the caption request of that handler ended ("none", "ok", "raise")
LoadingSlot ==
    [kind |-> "empty", loading |-> TRUE, image |-> "", prompt |-> "", caption |-> "",
     img |-> "none", onload |-> "none", capCall |-> "none"]

\* mutant: no caption counts as given, every image asks for one on load
Pregenerated_never(pregeneratedCaption) == FALSE

\* if (pregeneratedCaption)
Pregenerated(pregeneratedCaption) == pregeneratedCaption # ""

\* img.complete right after src is set: the data URL is already among the
\* images the document has loaded
ImgComplete(imageBytes, containers) ==
    \E j \in DOMAIN containers :
        containers[j].img = "loaded" /\ containers[j].image = imageBytes

\* the container after populateImageContainer: image and caption appended;
\* with a caption given the loading class goes when the image is complete,
\* without one the load handler will ask for a caption
populateImageContainer(imageData, imagePrompt, pregeneratedCaption, complete) ==
    [kind |-> "image",
     loading |-> ~(Pregenerated(pregeneratedCaption) /\ complete),
     image |-> imageData.imageBytes,
     prompt |-> imagePrompt,
     caption |-> IF Pregenerated(pregeneratedCaption) THEN pregeneratedCaption
                 ELSE GENERATING_CAPTION,
     img |-> IF Pregenerated(pregeneratedCaption) /\ complete THEN "loaded" ELSE "pending",
     onload |-> IF ~Pregenerated(pregeneratedCaption) THEN "caption"
                ELSE IF complete THEN "none" ELSE "finish",
     capCall |-> "none"]

\* img.onload = finishLoading
FinishLoading(slot) == [slot EXCEPT !.loading = FALSE, !.img = "loaded"]

\* the async img.onload up to its await: the caption request is out
StartCaption(slot) == [slot EXCEPT !.img = "captioning"]

\* mutant: a failed caption request takes the image down with it
OnloadCaption_failsUnit(slot, resp) ==
    IF resp.kind = "raise"
    THEN [slot EXCEPT !.kind = "failed", !.loading = FALSE, !.img = "none",
                      !.capCall = "raise"]
    ELSE [slot EXCEPT !.caption = resp.text, !.loading = FALSE, !.img = "loaded",
                      !.capCall = "ok"]

\* the async img.onload after its await: try, catch, finally
OnloadCaption(slot, resp) ==
    [slot EXCEPT !.caption = IF resp.kind = "raise" THEN MSG_COULD_NOT_CAPTION
                             ELSE resp.text,
                 !.loading = FALSE,
                 !.img = "loaded",
                 !.capCall = IF resp.kind = "raise" THEN "raise" ELSE "ok"]

\* img.onerror: the content of the container is replaced by "Error loading
\* image."
ErrorSlot ==
    [kind |-> "loadError", loading |-> FALSE, image |-> "", prompt |-> "",
     caption |-> MSG_ERROR_LOADING, img |-> "none", onload |-> "none", capCall |-> "none"]

\* the container after "Failed to generate image for prompt: ..."
FailedSlot(p) ==
    [kind |-> "failed", loading |-> FALSE, image |-> "", prompt |-> p, caption |-> "",
     img |-> "none", onload |-> "none", capCall |-> "none"]

\* the container after "Failed to generate images."
FailedAllSlot ==
    [kind |-> "failedAll", loading |-> FALSE, image |-> "", prompt |-> "", caption |-> "",
     img |-> "none", onload |-> "none", capCall |-> "none"]

\* the record handed to saveImageToDatabase, waiting for the classifier
DbTask(base64, p, model, cap) ==
    [base64 |-> base64, prompt |-> p, model |-> model, caption |-> cap,
     stage |-> "classify", title |-> <<>>, category |-> "", absent |-> {},
     classify |-> "none", writes |-> 0]

\* progress bar
updateProgress_completed(current, total) ==
    [hidden |-> FALSE, indeterminate |-> FALSE, label |-> "unit", current |-> current - 1, total |-> total]

updateProgress(current, total) ==
    [hidden |-> FALSE, indeterminate |-> FALSE, label |-> "unit", current |-> current, total |-> total]

showIndeterminateProgress(message) ==
    [hidden |-> FALSE, indeterminate |-> TRUE, label |-> message, current |-> 0, total |-> 0]

\* mutant: the indeterminate class is left on the bar
hideProgress_keepsIndeterminate(p) == [p EXCEPT !.hidden = TRUE]

hideProgress(p) == [p EXCEPT !.hidden = TRUE, !.indeterminate = FALSE]

\* error banner
displayError(message) == [hidden |-> FALSE, message |-> message]
hideError(e) == [e EXCEPT !.hidden = TRUE]

\* error.message || 'Could not generate images.'
ErrorMessageText(message) == IF message = "" THEN MSG_COULD_NOT_GENERATE ELSE message

\* mutant: the finally block leaves the trigger disabled
FinallyButton_staysDisabled(originalText) == [text |-> originalText, disabled |-> TRUE]

\* the finally block of generateImages: the trigger
FinallyButton(originalText) == [text |-> originalText, disabled |-> FALSE]

GeneratingButton_stillEnabled == [text |-> GENERATING_LABEL, disabled |-> FALSE]

\* the generate button while a run is in flight
GeneratingButton == [text |-> GENERATING_LABEL, disabled |-> TRUE]

\* addToHistory: the new item and the ledger with it at the front
HistoryItem(p, model, image, t) ==
    [id |-> t, prompt |-> p, model |-> model, thumbnail |-> image.imageBytes, timestamp |-> t]

\* mutant: the new item goes to the end
Unshift_push(h, item) == h \o <<item>>

\* generationHistory.unshift(newItem)
Unshift(h, item) == <<item>> \o h

\* the condition of the finalizing block and its operands
HasResults(all) == Len(all) > 0
Thumbnail(all) == all[1]
NewTotal(total, all) == total + Len(all)

\* mutant: only the first element is written
JSONstringify_firstOnly(h) ==
    [kind |-> "json", items |-> IF h = <<>> THEN <<>> ELSE <<h[1]>>]

\* localStorage text of the ledger: numbers and strings, and values that were
\* parsed from such a text, are read back as they were written
JSONstringify(h) == [kind |-> "json", items |-> h]
AbsentKey == [kind |-> "absent", items |-> <<>>]

\* other texts localStorage can hold under the key: the empty text, text
\* that is not JSON, JSON of a value that is no array (an object, a number,
\* null); Denied: localStorage.getItem itself throws
EmptyText   == [kind |-> "empty", items |-> <<>>]
Unparseable == [kind |-> "unparseable", items |-> <<>>]
NonList     == [kind |-> "nonlist", items |-> <<>>]
Denied      == [kind |-> "denied", items |-> <<>>]

\* elements of a stored array that are no history entries: an object without
\* the fields of an entry (or a number), and null
JunkObject == [junk |-> "object"]
JunkNull   == [junk |-> "null"]

\* an entry written by an earlier session
OldItem == HistoryItem("fox", GEMINI, GenImage("imgA"), 0)

StoredTexts ==
    {AbsentKey, EmptyText, Unparseable, NonList, Denied}
    \cup {JSONstringify(h) : h \in SeqsUpTo({OldItem, JunkObject, JunkNull}, MaxStored)}

\* renderHistory throws: the ledger has no forEach, or item.model is read on
\* null
RenderThrows(kind, h) ==
    kind = "nonlist" \/ \E k \in DOMAIN h : h[k] = JunkNull

\* loadHistory on a page whose ledger is current: the ledger after it, and
\* whether its catch ran
loadHistory(stored, current) ==
    CASE stored.kind \in {"absent", "empty"} -> [history |-> current, caught |-> FALSE]
      [] stored.kind \in {"unparseable", "denied"} -> [history |-> <<>>, caught |-> TRUE]
      [] RenderThrows(stored.kind, stored.items) -> [history |-> <<>>, caught |-> TRUE]
      [] OTHER -> [history |-> stored.items, caught |-> FALSE]

\* ------------------------------------------------------------------- state
VARIABLES
    \* the input controls
    promptInput, numImagesInput, generationModelSelect, diverseSubjectsChecked,
    \* the page
    generateButton,      \* [text, disabled]
    galleryMsg,          \* text the gallery shows instead of containers, "" if none
    placeholders,        \* the containers created for the run
    downloadHidden, errorBanner, progress, uiCounts,
    \* module-level state
    totalGeneratedCount, generationHistory, storage, now,
    \* generateImages: position and locals
    pc, prompt, numberOfImages, selectedModel, promptsToGenerate, i,
    allGeneratedImages, curImage, originalButtonText,
    \* saveImageToDatabase calls started, each with its stage
    dbTasks,
    \* observation of the run: requests issued by generateImages, the result
    \* of each unit's backing call, entries recorded, how the run ended
    netCalls, divResult, genOutcome, recorded, outcome,
    \* per unit: the message of the error its try/catch caught and how its
    \* awaited caption request ended
    unitLog,
    \* a function under test on its own: its argument and its result
    probeIn, probeOut

inputVars == <<promptInput, numImagesInput, generationModelSelect, diverseSubjectsChecked>>
endVars == <<pc, progress, generateButton, galleryMsg, errorBanner, downloadHidden,
             uiCounts, totalGeneratedCount, generationHistory, storage, recorded, outcome>>
localVars == <<prompt, numberOfImages, selectedModel, originalButtonText>>
vars == <<promptInput, numImagesInput, generationModelSelect, diverseSubjectsChecked,
          generateButton, galleryMsg, placeholders, downloadHidden, errorBanner,
          progress, uiCounts, totalGeneratedCount, generationHistory, storage, now,
          pc, prompt, numberOfImages, selectedModel, promptsToGenerate, i,
          allGeneratedImages, curImage, originalButtonText, dbTasks,
          netCalls, divResult, genOutcome, recorded, outcome, unitLog,
          probeIn, probeOut>>
probeVars == <<probeIn, probeOut>>

NoLog == [caught |-> "", caption |-> "none"]
NoProbe == [fn |-> "none"]

\* no response of the diversifier seen yet
NoDivResult == [kind |-> "none", prompts |-> <<>>]

NetCall(api, p, n, idx) == [api |-> api, prompt |-> p, n |-> n, index |-> idx]

\* updateUiCounts
updateUiCounts(galleryCount, total) == [gallery |-> galleryCount, total |-> total]

\* the page after initializeApp, the ledger and the storage aside
InitPage ==
    /\ generateButton = [text |-> GENERATE_LABEL, disabled |-> FALSE]
    /\ galleryMsg = GALLERY_WELCOME
    /\ placeholders = <<>>
    /\ downloadHidden = TRUE
    /\ errorBanner = [hidden |-> TRUE, message |-> ""]
    /\ progress = [hidden |-> TRUE, indeterminate |-> FALSE, label |-> "", current |-> 0, total |-> 0]
    /\ uiCounts = updateUiCounts(0, 0)
    /\ totalGeneratedCount = 0
    /\ now = 1
    /\ pc = "idle"
    /\ prompt = ""
    /\ numberOfImages = 0
    /\ selectedModel = ""
    /\ promptsToGenerate = <<>>
    /\ i = 0
    /\ allGeneratedImages = <<>>
    /\ curImage = NoImage
    /\ originalButtonText = ""
    /\ dbTasks = <<>>
    /\ netCalls = <<>>
    /\ divResult = NoDivResult
    /\ genOutcome = <<>>
    /\ recorded = <<>>
    /\ outcome = "none"
    /\ unitLog = <<>>

\* the page after initializeApp with nothing stored, with any values in the
\* input controls
Init ==
    /\ promptInput \in BasePrompts
    /\ numImagesInput \in Counts
    /\ generationModelSelect \in Models
    /\ diverseSubjectsChecked \in BOOLEAN
    /\ InitPage
    /\ generationHistory = <<>>
    /\ storage = AbsentKey
    /\ probeIn = NoProbe
    /\ probeOut = NoProbe

\* ------------------------------------------- generateImages: shared blocks
\* the run goes on to its next await
Continue(nextpc, prog) ==
    /\ pc' = nextpc
    /\ progress' = prog
    /\ UNCHANGED <<generateButton, galleryMsg, errorBanner, downloadHidden, uiCounts,
                   totalGeneratedCount, generationHistory, storage, recorded, outcome>>

\* the finally block
RunFinally ==
    /\ generateButton' = FinallyButton(originalButtonText)
    /\ progress' = hideProgress(progress)
    /\ pc' = "idle"

\* mutant: the outer catch shows the download button
OuterCatch_revealsDownload(message) ==
    /\ errorBanner' = displayError(ErrorMessageText(message))
    /\ galleryMsg' = GALLERY_FAILED_TOP
    /\ outcome' = "toplevel"
    /\ RunFinally
    /\ downloadHidden' = FALSE
    /\ UNCHANGED <<uiCounts, totalGeneratedCount, generationHistory, storage, recorded>>

\* the outer catch, then the finally block
OuterCatch(message) ==
    /\ errorBanner' = displayError(ErrorMessageText(message))
    /\ galleryMsg' = GALLERY_FAILED_TOP
    /\ outcome' = "toplevel"
    /\ RunFinally
    /\ UNCHANGED <<downloadHidden, uiCounts, totalGeneratedCount, generationHistory,
                   storage, recorded>>

\* mutant: the entry is made of the input controls as they are at the end
Finalizing_readsControls(all) ==
    /\ IF HasResults(all)
       THEN \E quota \in BOOLEAN :
              LET item == HistoryItem(promptInput, generationModelSelect, Thumbnail(all), now)
                  h == Unshift(generationHistory, item)
              IN  /\ generationHistory' = h
                  /\ storage' = IF quota THEN storage ELSE JSONstringify(h)
                  /\ errorBanner' = IF quota THEN displayError(MSG_SAVE_HISTORY)
                                    ELSE errorBanner
                  /\ recorded' = Append(recorded, item)
                  /\ totalGeneratedCount' = NewTotal(totalGeneratedCount, all)
                  /\ uiCounts' = updateUiCounts(Len(all), NewTotal(totalGeneratedCount, all))
                  /\ downloadHidden' = FALSE
                  /\ galleryMsg' = galleryMsg
                  /\ outcome' = "success"
       ELSE /\ galleryMsg' = GALLERY_FAILED_RESULTS
            /\ outcome' = "allfailed"
            /\ UNCHANGED <<generationHistory, storage, errorBanner, recorded,
                           totalGeneratedCount, uiCounts, downloadHidden>>
    /\ RunFinally

\* mutant: a failed write ends the finalizing block where it is
Finalizing_saveThrows(all) ==
    /\ IF HasResults(all)
       THEN \E quota \in BOOLEAN :
              LET item == HistoryItem(prompt, selectedModel, Thumbnail(all), now)
                  h == Unshift(generationHistory, item)
              IN  /\ generationHistory' = h
                  /\ storage' = IF quota THEN storage ELSE JSONstringify(h)
                  /\ errorBanner' = IF quota THEN displayError(MSG_SAVE_HISTORY)
                                    ELSE errorBanner
                  /\ recorded' = Append(recorded, item)
                  /\ totalGeneratedCount' = IF quota THEN totalGeneratedCount
                                            ELSE NewTotal(totalGeneratedCount, all)
                  /\ uiCounts' = updateUiCounts(Len(all), NewTotal(totalGeneratedCount, all))
                  /\ downloadHidden' = (quota /\ downloadHidden)
                  /\ galleryMsg' = galleryMsg
                  /\ outcome' = "success"
       ELSE /\ galleryMsg' = GALLERY_FAILED_RESULTS
            /\ outcome' = "allfailed"
            /\ UNCHANGED <<generationHistory, storage, errorBanner, recorded,
                           totalGeneratedCount, uiCounts, downloadHidden>>
    /\ RunFinally

\* the finalizing block (addToHistory, saveHistory, counts), then finally;
\* quota: localStorage.setItem throws
Finalizing(all) ==
    /\ IF HasResults(all)
       THEN \E quota \in BOOLEAN :
              LET item == HistoryItem(prompt, selectedModel, Thumbnail(all), now)
                  h == Unshift(generationHistory, item)
              IN  /\ generationHistory' = h
                  /\ storage' = IF quota THEN storage ELSE JSONstringify(h)
                  /\ errorBanner' = IF quota THEN displayError(MSG_SAVE_HISTORY)
                                    ELSE errorBanner
                  /\ recorded' = Append(recorded, item)
                  /\ totalGeneratedCount' = NewTotal(totalGeneratedCount, all)
                  /\ uiCounts' = updateUiCounts(Len(all), NewTotal(totalGeneratedCount, all))
                  /\ downloadHidden' = FALSE
                  /\ galleryMsg' = galleryMsg
                  /\ outcome' = "success"
       ELSE /\ galleryMsg' = GALLERY_FAILED_RESULTS
            /\ outcome' = "allfailed"
            /\ UNCHANGED <<generationHistory, storage, errorBanner, recorded,
                           totalGeneratedCount, uiCounts, downloadHidden>>
    /\ RunFinally

\* mutant: the requests of unit k and of the unit after it are issued together
SeqNext_twoAtOnce(k, plan, all, calls) ==
    /\ i' = k
    /\ IF k <= Len(plan)
       THEN /\ netCalls' =
                 IF k + 1 <= Len(plan)
                 THEN calls \o <<NetCall("generateContent", plan[k], 1, k),
                                 NetCall("generateContent", plan[k + 1], 1, k + 1)>>
                 ELSE Append(calls, NetCall("generateContent", plan[k], 1, k))
            /\ Continue("seq_gen", updateProgress(k, Len(plan)))
       ELSE /\ netCalls' = calls
            /\ Finalizing(all)

\* the head of the loop of the multimodal path at index k: the next
\* generateContent request, or the end of the loop
SeqNext(k, plan, all, calls) ==
    /\ i' = k
    /\ IF k <= Len(plan)
       THEN /\ netCalls' = Append(calls, NetCall("generateContent", plan[k], 1, k))
            /\ Continue("seq_gen", updateProgress(k, Len(plan)))
       ELSE /\ netCalls' = calls
            /\ Finalizing(all)

\* the head of the loop over the diverse prompts on the image model path
BulkNext(k, plan, all, calls) ==
    /\ i' = k
    /\ IF k <= Len(plan)
       THEN /\ netCalls' = Append(calls, NetCall("generateImages", plan[k], 1, k))
            /\ Continue("bulk_gen", updateProgress(k, Len(plan)))
       ELSE /\ netCalls' = calls
            /\ Finalizing(all)

\* ------------------------------------------------------- generateImages
\* click on the generate button: generateImages from its start to its first
\* await (or to its return, when the prompt field is empty)
GenerateClick ==
    /\ ~generateButton.disabled
    /\ IF ~Validate(promptInput)
       THEN /\ errorBanner' = displayError(MSG_ENTER_PROMPT)
            /\ outcome' = "validation"
            /\ UNCHANGED <<generateButton, galleryMsg, placeholders, downloadHidden,
                           progress, uiCounts, pc, localVars, promptsToGenerate, i,
                           allGeneratedImages, curImage, netCalls, divResult, genOutcome,
                           recorded, unitLog>>
       ELSE IF generationModelSelect = GEMINI /\ numImagesInput < 1
       THEN \* no placeholder and no diversifier (n > 1 is false); Array(n)
            \* raises a RangeError for a negative n, and for 0 the plan is
            \* empty: the run ends before any await
            LET n == numImagesInput IN
            /\ originalButtonText' = generateButton.text
            /\ generateButton' = FinallyButton(generateButton.text)
            /\ galleryMsg' = IF n < 0 THEN GALLERY_FAILED_TOP ELSE GALLERY_FAILED_RESULTS
            /\ downloadHidden' = TRUE
            /\ errorBanner' = IF n < 0 THEN displayError(ErrorMessageText(ERR_RANGE))
                              ELSE hideError(errorBanner)
            /\ uiCounts' = updateUiCounts(0, totalGeneratedCount)
            /\ numberOfImages' = n
            /\ selectedModel' = generationModelSelect
            /\ prompt' = promptInput
            /\ placeholders' = <<>>
            /\ allGeneratedImages' = <<>>
            /\ curImage' = NoImage
            /\ recorded' = <<>>
            /\ divResult' = NoDivResult
            /\ outcome' = IF n < 0 THEN "toplevel" ELSE "allfailed"
            /\ promptsToGenerate' = <<>>
            /\ genOutcome' = <<>>
            /\ unitLog' = <<>>
            /\ i' = 0
            /\ netCalls' = <<>>
            /\ progress' = hideProgress(progress)
            /\ pc' = "idle"
       ELSE LET n == numImagesInput
                model == generationModelSelect
                p == promptInput
            IN  /\ originalButtonText' = generateButton.text
                /\ generateButton' = GeneratingButton
                /\ galleryMsg' = ""
                /\ downloadHidden' = TRUE
                /\ errorBanner' = hideError(errorBanner)
                /\ uiCounts' = updateUiCounts(0, totalGeneratedCount)
                /\ numberOfImages' = n
                /\ selectedModel' = model
                /\ prompt' = p
                /\ placeholders' = [j \in 1..n |-> LoadingSlot]
                /\ allGeneratedImages' = <<>>
                /\ curImage' = NoImage
                /\ recorded' = <<>>
                /\ divResult' = NoDivResult
                /\ outcome' = "running"
                /\ IF UseDiversifier(model, diverseSubjectsChecked, n)
                   THEN /\ progress' = showIndeterminateProgress("Generating diverse prompts...")
                        /\ netCalls' = <<NetCall("getDiversePrompts", p, n, 0)>>
                        /\ promptsToGenerate' = <<>>
                        /\ genOutcome' = <<>>
                        /\ unitLog' = <<>>
                        /\ i' = 0
                        /\ pc' = IF model = GEMINI THEN "seq_diversify" ELSE "bulk_diversify"
                   ELSE IF model = GEMINI
                   THEN /\ promptsToGenerate' = ConstantPlan(p, n)
                        /\ genOutcome' = [j \in 1..n |-> "none"]
                        /\ unitLog' = [j \in 1..n |-> NoLog]
                        /\ i' = 1
                        /\ netCalls' = <<NetCall("generateContent", ConstantPlan(p, n)[1], 1, 1)>>
                        /\ progress' = updateProgress(1, n)
                        /\ pc' = "seq_gen"
                   ELSE /\ promptsToGenerate' = <<>>
                        /\ genOutcome' = [j \in 1..n |-> "none"]
                        /\ unitLog' = [j \in 1..n |-> NoLog]
                        /\ i' = 0
                        /\ netCalls' = <<NetCall("generateImages", p, n, 0)>>
                        /\ progress' = showIndeterminateProgress("Generating images...")
                        /\ pc' = "batch_gen"
    /\ UNCHANGED <<inputVars, probeVars, now, totalGeneratedCount, generationHistory, storage, dbTasks>>

\* multimodal path: getDiversePrompts settles
SeqDiversifierReturns ==
    /\ pc = "seq_diversify"
    /\ \E resp \in DivResponses(numberOfImages) :
         LET r == getDiversePrompts(resp) IN
         /\ divResult' = resp
         /\ IF r.threw
            THEN /\ OuterCatch(r.message)
                 /\ UNCHANGED <<promptsToGenerate, genOutcome, unitLog, i, netCalls>>
            ELSE /\ promptsToGenerate' = DiversePlan(r.prompts)
                 /\ genOutcome' = [j \in 1..Len(DiversePlan(r.prompts)) |-> "none"]
                 /\ unitLog' = [j \in 1..Len(DiversePlan(r.prompts)) |-> NoLog]
                 /\ SeqNext(1, DiversePlan(r.prompts), allGeneratedImages, netCalls)
    /\ UNCHANGED <<inputVars, probeVars, now, localVars, placeholders, allGeneratedImages, curImage, dbTasks>>

\* the message of the error the try/catch of iteration i catches, "" if none
CaughtBy(kind, gotImage, hasSlot) ==
    IF kind = "raise" THEN ERR_NETWORK
    ELSE IF ~gotImage THEN MSG_NO_IMAGE
    ELSE IF ~hasSlot THEN ERR_NO_CONTAINER
    ELSE ""

\* multimodal path: the generateContent request of unit i settles; the rest
\* of the iteration, then the head of the next one or the finalizing block
SeqGenReturns ==
    /\ pc = "seq_gen"
    /\ \E resp \in SeqResponses :
         LET currentPrompt == promptsToGenerate[i]
             scan == ScanParts(resp.parts)
             imageData == [imageBytes |-> scan.imageBase64, mimeType |-> FindMime(resp.parts)]
             gotImage == GotImage(resp.kind, scan.imageBase64)
             hasSlot == i <= Len(placeholders)
             all == IF gotImage THEN Append(allGeneratedImages, imageData)
                    ELSE allGeneratedImages
         IN  /\ genOutcome' = [genOutcome EXCEPT ![i] =
                                  IF resp.kind = "raise" THEN "raise"
                                  ELSE IF HasImagePart(resp.parts) THEN "ok" ELSE "noimage"]
             /\ unitLog' = [unitLog EXCEPT ![i].caught = CaughtBy(resp.kind, gotImage, hasSlot)]
             /\ allGeneratedImages' = all
             /\ placeholders' =
                  IF ~hasSlot THEN placeholders
                  ELSE IF gotImage
                  THEN [placeholders EXCEPT ![i] =
                           populateImageContainer(imageData, currentPrompt, scan.captionText,
                               ImgComplete(imageData.imageBytes, placeholders))]
                  ELSE [placeholders EXCEPT ![i] = FailedSlot(currentPrompt)]
             /\ dbTasks' =
                  IF gotImage /\ hasSlot
                  THEN Append(dbTasks, DbTask(scan.imageBase64, currentPrompt,
                                              selectedModel, scan.captionText))
                  ELSE dbTasks
             /\ SeqNext(i + 1, promptsToGenerate, all, netCalls)
    /\ UNCHANGED <<inputVars, probeVars, now, localVars, promptsToGenerate, curImage, divResult>>

\* image model path: getDiversePrompts settles
BulkDiversifierReturns ==
    /\ pc = "bulk_diversify"
    /\ \E resp \in DivResponses(numberOfImages) :
         LET r == getDiversePrompts(resp) IN
         /\ divResult' = resp
         /\ IF r.threw
            THEN /\ OuterCatch(r.message)
                 /\ UNCHANGED <<promptsToGenerate, genOutcome, unitLog, i, netCalls>>
            ELSE /\ promptsToGenerate' = DiversePlan(r.prompts)
                 /\ genOutcome' = [j \in 1..Len(DiversePlan(r.prompts)) |-> "none"]
                 /\ unitLog' = [j \in 1..Len(DiversePlan(r.prompts)) |-> NoLog]
                 /\ BulkNext(1, DiversePlan(r.prompts), allGeneratedImages, netCalls)
    /\ UNCHANGED <<inputVars, probeVars, now, localVars, placeholders, allGeneratedImages, curImage, dbTasks>>

\* generateAndProcessImage: the generateImages request of unit i settles
BulkGenReturns ==
    /\ pc = "bulk_gen"
    /\ \E resp \in BulkResponses(1) :
         LET currentPrompt == promptsToGenerate[i]
             hasSlot == i <= Len(placeholders)
         IN  IF resp.kind = "raise"
             THEN /\ genOutcome' = [genOutcome EXCEPT ![i] = "raise"]
                  /\ OuterCatch(ERR_NETWORK)
                  /\ UNCHANGED <<curImage, placeholders, netCalls, i>>
             ELSE IF Len(resp.generatedImages) > 0
             THEN /\ genOutcome' = [genOutcome EXCEPT ![i] = "ok"]
                  /\ curImage' = resp.generatedImages[1]
                  /\ netCalls' = Append(netCalls,
                         NetCall("generateCaption", currentPrompt, 1, i))
                  /\ Continue("bulk_caption", progress)
                  /\ UNCHANGED <<placeholders, i>>
             ELSE /\ genOutcome' = [genOutcome EXCEPT ![i] = "noimage"]
                  /\ curImage' = curImage
                  /\ IF hasSlot
                     THEN /\ placeholders' = [placeholders EXCEPT ![i] = FailedSlot(currentPrompt)]
                          /\ BulkNext(i + 1, promptsToGenerate, allGeneratedImages, netCalls)
                     ELSE /\ OuterCatch(ERR_NO_CONTAINER)
                          /\ UNCHANGED <<placeholders, netCalls, i>>
    /\ UNCHANGED <<inputVars, probeVars, now, localVars, promptsToGenerate,
                   allGeneratedImages, dbTasks, divResult, unitLog>>

\* how a caption request ended
CaptionOutcome(resp) ==
    IF resp.kind = "raise" THEN "raise" ELSE IF resp.text = "" THEN "empty" ELSE "ok"

\* the text the caption try/catch of the image model path leaves in captionText
CaptionText(resp) == IF resp.kind = "raise" THEN CAPTION_NOT_AVAILABLE ELSE resp.text

\* mutant: no try/catch around the caption request
CaptionTry_noCatch(resp) ==
    [threw |-> resp.kind = "raise", message |-> ERR_NETWORK, captionText |-> CaptionText(resp)]

\* try { captionText = await generateCaption(...) } catch (e) { log }: what
\* leaves the block
CaptionTry(resp) == [threw |-> FALSE, message |-> "", captionText |-> CaptionText(resp)]

\* generateAndProcessImage: the generateCaption request of unit i settles
BulkCaptionReturns ==
    /\ pc = "bulk_caption"
    /\ \E resp \in CaptionResponses :
         LET currentPrompt == promptsToGenerate[i]
             try == CaptionTry(resp)
             captionText == try.captionText
             hasSlot == i <= Len(placeholders)
         IN  /\ unitLog' = [unitLog EXCEPT ![i].caption = CaptionOutcome(resp)]
             /\ IF try.threw
                THEN /\ OuterCatch(try.message)
                     /\ UNCHANGED <<placeholders, dbTasks, allGeneratedImages, netCalls, i>>
                ELSE IF hasSlot
                THEN /\ placeholders' = [placeholders EXCEPT ![i] =
                            populateImageContainer(curImage, currentPrompt, captionText,
                                ImgComplete(curImage.imageBytes, placeholders))]
                     /\ dbTasks' = Append(dbTasks, DbTask(curImage.imageBytes, currentPrompt,
                                                           selectedModel, captionText))
                     /\ allGeneratedImages' = Append(allGeneratedImages, curImage)
                     /\ BulkNext(i + 1, promptsToGenerate,
                                 Append(allGeneratedImages, curImage), netCalls)
                ELSE /\ OuterCatch(ERR_NO_CONTAINER)
                     /\ UNCHANGED <<placeholders, dbTasks, allGeneratedImages, netCalls, i>>
    /\ UNCHANGED <<inputVars, probeVars, now, localVars, promptsToGenerate, curImage, genOutcome,
                   divResult>>

\* image model path, one prompt: the batched generateImages request settles
BatchGenReturns ==
    /\ pc = "batch_gen"
    /\ \E resp \in BulkResponses(numberOfImages) :
         IF resp.kind = "raise"
         THEN /\ genOutcome' = [j \in DOMAIN genOutcome |-> "raise"]
              /\ OuterCatch(ERR_NETWORK)
              /\ UNCHANGED <<allGeneratedImages, placeholders, netCalls, i>>
         ELSE IF Len(resp.generatedImages) > 0
         THEN /\ genOutcome' = [j \in DOMAIN genOutcome |->
                                   IF j <= Len(resp.generatedImages) THEN "ok" ELSE "noimage"]
              /\ allGeneratedImages' = resp.generatedImages
              /\ i' = 1
              /\ netCalls' = Append(netCalls, NetCall("generateCaption", prompt, 1, 1))
              /\ Continue("batch_caption", progress)
              /\ UNCHANGED placeholders
         ELSE /\ genOutcome' = [j \in DOMAIN genOutcome |-> "noimage"]
              /\ placeholders' = [j \in DOMAIN placeholders |-> FailedAllSlot]
              /\ UNCHANGED <<allGeneratedImages, i, netCalls>>
              /\ Finalizing(allGeneratedImages)
    /\ UNCHANGED <<inputVars, probeVars, now, localVars, promptsToGenerate, curImage, dbTasks,
                   divResult, unitLog>>

\* image model path, one prompt: the generateCaption request of image i settles
BatchCaptionReturns ==
    /\ pc = "batch_caption"
    /\ \E resp \in CaptionResponses :
         LET imageData == allGeneratedImages[i]
             try == CaptionTry(resp)
             captionText == try.captionText
         IN  /\ unitLog' = [unitLog EXCEPT ![i].caption = CaptionOutcome(resp)]
             /\ IF try.threw
                THEN /\ OuterCatch(try.message)
                     /\ UNCHANGED <<placeholders, dbTasks, netCalls, i>>
                ELSE /\ placeholders' = [placeholders EXCEPT ![i] =
                            populateImageContainer(imageData, prompt, captionText,
                                ImgComplete(imageData.imageBytes, placeholders))]
                     /\ dbTasks' = Append(dbTasks, DbTask(imageData.imageBytes, prompt,
                                                           selectedModel, captionText))
                     /\ IF i < Len(allGeneratedImages)
                        THEN /\ i' = i + 1
                             /\ netCalls' = Append(netCalls,
                                    NetCall("generateCaption", prompt, 1, i + 1))
                             /\ Continue("batch_caption", progress)
                        ELSE /\ i' = i + 1
                             /\ netCalls' = netCalls
                             /\ Finalizing(allGeneratedImages)
    /\ UNCHANGED <<inputVars, probeVars, now, localVars, promptsToGenerate, curImage,
                   allGeneratedImages, genOutcome, divResult>>

\* ------------------------------------------------- saveImageToDatabase
\* mutant: the whole prompt becomes the title
First50_whole(chars) == chars

\* prompt.substring(0, 50) on the characters of the prompt
First50(chars) ==
    SubSeq(chars, 1, IF Len(chars) < TITLE_MAX THEN Len(chars) ELSE TITLE_MAX)

\* getImageMetadata: the metadata for the response of the text model; the
\* title is a sequence of characters
getImageMetadata(resp, p) ==
    IF resp.kind \in {"ok", "null"}
    THEN [isNull |-> resp.kind = "null", title |-> resp.title, category |-> resp.category,
          absent |-> resp.absent]
    ELSE [isNull |-> FALSE, title |-> First50(Chars(p)), category |-> "Other",
          absent |-> {}]

\* saveImageToDatabase from the answer of the classifier on: the payload is
\* built and sent; classify: whether getImageMetadata went through its catch
saveImageToDatabase(task, resp) ==
    LET meta == getImageMetadata(resp, task.prompt) IN
    IF meta.isNull
    THEN [task EXCEPT !.stage = "failed", !.classify = "ok"]
    ELSE [task EXCEPT !.stage = "sent",
                      !.writes = task.writes + 1,
                      !.title = meta.title,
                      !.category = meta.category,
                      !.absent = meta.absent,
                      !.classify = IF resp.kind = "ok" THEN "ok" ELSE "failed"]

\* mutant: a save whose classification failed shows the error banner
PersistClassifyReturns_reportsFailure ==
    /\ \E t \in DOMAIN dbTasks :
         /\ dbTasks[t].stage = "classify"
         /\ \E resp \in MetaResponses :
              /\ dbTasks' = [dbTasks EXCEPT ![t] = saveImageToDatabase(dbTasks[t], resp)]
              /\ errorBanner' = IF resp.kind = "ok" THEN errorBanner
                                ELSE displayError(ERR_NETWORK)
    /\ UNCHANGED <<inputVars, probeVars, now, pc, progress, generateButton, galleryMsg,
                   downloadHidden, uiCounts, totalGeneratedCount, generationHistory,
                   storage, recorded, outcome, localVars, placeholders,
                   promptsToGenerate, i, allGeneratedImages, curImage, netCalls, divResult,
                   genOutcome, unitLog>>

\* the classifier request of one started save settles; the fetch is sent
PersistClassify(responses) ==
    /\ \E t \in DOMAIN dbTasks :
         /\ dbTasks[t].stage = "classify"
         /\ \E resp \in responses :
              dbTasks' = [dbTasks EXCEPT ![t] = saveImageToDatabase(dbTasks[t], resp)]
    /\ UNCHANGED <<inputVars, probeVars, now, endVars, localVars, placeholders,
                   promptsToGenerate, i, allGeneratedImages, curImage, netCalls, divResult,
                   genOutcome, unitLog>>

PersistClassifyReturns == PersistClassify(MetaResponses)

\* the same with a text of any shape
PersistClassifyReturnsAny == PersistClassify(MetaResponses \cup OddMetaResponses)

\* mutant: a write that failed is issued again
FetchSettles_retries ==
    /\ \E t \in DOMAIN dbTasks :
         /\ dbTasks[t].stage = "sent"
         /\ \E ok \in BOOLEAN :
              dbTasks' = [dbTasks EXCEPT ![t] =
                             IF ok THEN [@ EXCEPT !.stage = "written"]
                             ELSE [@ EXCEPT !.writes = @ + 1]]
    /\ UNCHANGED <<inputVars, probeVars, now, endVars, localVars, placeholders,
                   promptsToGenerate, i, allGeneratedImages, curImage, netCalls, divResult,
                   genOutcome, unitLog>>

\* the promise of the fetch of a save settles (an opaque response, or a
\* rejection): nothing awaits it and it has no handler
FetchSettles ==
    /\ \E t \in DOMAIN dbTasks :
         /\ dbTasks[t].stage = "sent"
         /\ \E ok \in BOOLEAN :
              dbTasks' = [dbTasks EXCEPT ![t].stage = IF ok THEN "written" ELSE "writeFailed"]
    /\ UNCHANGED <<inputVars, probeVars, now, endVars, localVars, placeholders,
                   promptsToGenerate, i, allGeneratedImages, curImage, netCalls, divResult,
                   genOutcome, unitLog>>

\* ------------------------------------------------ image element events
runVars == <<pc, prompt, numberOfImages, selectedModel, promptsToGenerate, i,
             allGeneratedImages, curImage, originalButtonText>>
pageVars == <<generateButton, galleryMsg, downloadHidden, errorBanner, progress, uiCounts,
              totalGeneratedCount, generationHistory, storage>>
obsVars == <<divResult, genOutcome, recorded, outcome, unitLog>>

\* the load event of the image of container j: finishLoading, or the async
\* handler up to its generateCaption request
ImgLoad ==
    /\ \E j \in DOMAIN placeholders :
         LET slot == placeholders[j] IN
         /\ slot.kind = "image"
         /\ slot.img = "pending"
         /\ IF slot.onload = "caption"
            THEN /\ placeholders' = [placeholders EXCEPT ![j] = StartCaption(slot)]
                 /\ netCalls' = Append(netCalls, NetCall("generateCaption", slot.prompt, 1, j))
            ELSE /\ placeholders' = [placeholders EXCEPT ![j] = FinishLoading(slot)]
                 /\ netCalls' = netCalls
    /\ UNCHANGED <<inputVars, probeVars, now, runVars, pageVars, obsVars, dbTasks>>

\* the generateCaption request of the load handler of container j settles
ImgCaptionReturns ==
    /\ \E j \in DOMAIN placeholders :
         /\ placeholders[j].img = "captioning"
         /\ \E resp \in CaptionResponses :
              placeholders' = [placeholders EXCEPT ![j] = OnloadCaption(placeholders[j], resp)]
    /\ UNCHANGED <<inputVars, probeVars, now, runVars, pageVars, obsVars, dbTasks, netCalls>>

\* the error event of the image of container j
ImgError ==
    /\ \E j \in DOMAIN placeholders :
         /\ placeholders[j].kind = "image"
         /\ placeholders[j].img = "pending"
         /\ placeholders' = [placeholders EXCEPT ![j] = ErrorSlot]
    /\ UNCHANGED <<inputVars, probeVars, now, runVars, pageVars, obsVars, dbTasks, netCalls>>

\* ------------------------------------------- functions applied on their own
\* parts of a multimodal response, with a second text
RichParts == Parts \cup {TextPart("capB")}

\* arguments: the parts of a response for the scan of generateImages, a
\* started save and the answer of the classifier for saveImageToDatabase
ProbeInputs ==
    {[fn |-> "scan", parts |-> ps] : ps \in SeqsUpTo(RichParts, MaxParts + 1)}
    \cup {[fn |-> "saveImageToDatabase", task |-> DbTask(d, p, m, "capA"), resp |-> r] :
              d \in Images, p \in {"fox", "dawn", "night", PROMPT_50, PROMPT_LONG},
              m \in Models, r \in MetaResponses \cup OddMetaResponses}

InitPure ==
    /\ promptInput = ""
    /\ numImagesInput = 1
    /\ generationModelSelect = GEMINI
    /\ diverseSubjectsChecked = FALSE
    /\ InitPage
    /\ generationHistory = <<>>
    /\ storage = AbsentKey
    /\ probeIn \in ProbeInputs
    /\ probeOut = NoProbe

\* the scan of the parts of one response and the image data made from it
ProbeScan ==
    /\ probeIn.fn = "scan"
    /\ probeOut = NoProbe
    /\ probeOut' = [fn |-> "scan",
                    imageBase64 |-> ScanParts(probeIn.parts).imageBase64,
                    captionText |-> ScanParts(probeIn.parts).captionText,
                    mimeType |-> FindMime(probeIn.parts)]
    /\ UNCHANGED <<inputVars, probeIn, now, runVars, pageVars, obsVars, placeholders,
                   dbTasks, netCalls>>

\* saveImageToDatabase on one started save
ProbeSave ==
    /\ probeIn.fn = "saveImageToDatabase"
    /\ probeOut = NoProbe
    /\ probeOut' = [fn |-> "saveImageToDatabase",
                    task |-> saveImageToDatabase(probeIn.task, probeIn.resp)]
    /\ UNCHANGED <<inputVars, probeIn, now, runVars, pageVars, obsVars, placeholders,
                   dbTasks, netCalls>>

NextPure == ProbeScan \/ ProbeSave

SpecPure == InitPure /\ [][NextPure]_vars

\* ------------------------------------------------------------ the ledger
\* the page after initializeApp with any text in storage: loadHistory has run
InitLedger ==
    /\ promptInput = "fox"
    /\ numImagesInput = 1
    /\ generationModelSelect \in Models
    /\ diverseSubjectsChecked = FALSE
    /\ InitPage
    /\ storage \in StoredTexts
    /\ generationHistory = loadHistory(storage, <<>>).history
    /\ probeIn = NoProbe
    /\ probeOut = NoProbe

\* Date.now() moves on
Tick ==
    /\ now < MaxNow
    /\ now' = now + 1
    /\ UNCHANGED <<inputVars, probeVars, runVars, pageVars, obsVars, placeholders,
                   dbTasks, netCalls>>

\* a click on the generate button while the ledger is short
LedgerClick == Len(generationHistory) < MaxLedger /\ GenerateClick

NextLedger ==
    \/ LedgerClick
    \/ SeqGenReturns
    \/ BatchGenReturns
    \/ BatchCaptionReturns
    \/ Tick

SpecLedger == InitLedger /\ [][NextLedger]_vars

\* ------------------------------------------------------- specification
\* one run from the loaded page
FirstClick == outcome = "none" /\ GenerateClick

Next ==
    \/ FirstClick
    \/ SeqDiversifierReturns
    \/ SeqGenReturns
    \/ BulkDiversifierReturns
    \/ BulkGenReturns
    \/ BulkCaptionReturns
    \/ BatchGenReturns
    \/ BatchCaptionReturns
    \/ PersistClassifyReturns

Spec == Init /\ [][Next]_vars

\* one run with the image model selected, together with the events of the
\* image elements it creates; the classifier requests of the saves stay
\* pending
InitImagen == Init /\ generationModelSelect = IMAGEN

NextImagen ==
    \/ FirstClick
    \/ BulkDiversifierReturns
    \/ BulkGenReturns
    \/ BulkCaptionReturns
    \/ BatchGenReturns
    \/ BatchCaptionReturns
    \/ ImgLoad
    \/ ImgCaptionReturns
    \/ ImgError

SpecImagen == InitImagen /\ [][NextImagen]_vars

\* one run with the multimodal model selected, together with the events of
\* the image elements it creates
InitGemini == Init /\ generationModelSelect = GEMINI

NextGemini ==
    \/ FirstClick
    \/ SeqDiversifierReturns
    \/ SeqGenReturns
    \/ ImgLoad
    \/ ImgError

SpecGemini == InitGemini /\ [][NextGemini]_vars

\* ------------------------------------------------------------ properties
GenApis == {"generateContent", "generateImages"}
GenCallIdx == {k \in DOMAIN netCalls : netCalls[k].api \in GenApis}
CaptionCallIdx == {k \in DOMAIN netCalls : netCalls[k].api = "generateCaption"}
DivCalled == \E k \in DOMAIN netCalls : netCalls[k].api = "getDiversePrompts"

\* a run that passed validation has ended
RunEnded == pc = "idle" /\ outcome \in {"toplevel", "allfailed", "success"}

\* units rendered as an image, units whose backing call failed
SuccIdx == {j \in DOMAIN placeholders : placeholders[j].kind = "image"}
FailedIdx == {j \in DOMAIN genOutcome : genOutcome[j] \in {"raise", "noimage"}}
AllUnitsFailed == genOutcome # <<>> /\ FailedIdx = DOMAIN genOutcome

\* the k-th rendered unit in index order
NthSucc(k) == CHOOSE j \in SuccIdx : Cardinality({m \in SuccIdx : m <= j}) = k

LedgerUntouched ==
    recorded = <<>> /\ generationHistory = <<>> /\ storage = AbsentKey

\* C1: in a run of n > 1 units generated one call per prompt, when the
\* backing call of exactly one unit fails (raises or returns no image), every
\* other unit is attempted and rendered and the run ends with n-1 successes.
C1_SingleFailureIsolated ==
    (/\ RunEnded
     /\ numberOfImages > 1
     /\ Len(promptsToGenerate) = numberOfImages
     /\ Cardinality(FailedIdx) = 1)
    => /\ \A j \in DOMAIN genOutcome \ FailedIdx :
            genOutcome[j] = "ok" /\ placeholders[j].kind = "image"
       /\ outcome = "success"
       /\ uiCounts.gallery = numberOfImages - 1

\* C2: with diversify on and count > 1, a diversifier list whose length is
\* not count is never used: no generation request, no populated container,
\* no history entry, and the run ends in the top-level error.
C2_WrongCountAborts ==
    (/\ DivCalled
     /\ numberOfImages > 1
     /\ divResult.kind = "array"
     /\ Len(divResult.prompts) # numberOfImages)
    => /\ GenCallIdx = {}
       /\ \A j \in DOMAIN placeholders : placeholders[j].kind = "empty"
       /\ recorded = <<>>
       /\ pc = "idle" /\ outcome = "toplevel"

\* C3: when the diversifier call raises, returns text that does not parse,
\* or JSON without a prompts array, the run ends in the outer catch: the
\* error is displayed, no generation request was issued, the gallery shows
\* the failure text and no container, the ledger and the total are untouched.
DivFailureKinds == {"raise", "malformed", "noprompts", "notarray"}

C3_DiversifierFailureAborts ==
    divResult.kind \in DivFailureKinds
    => /\ pc = "idle" /\ outcome = "toplevel"
       /\ ~errorBanner.hidden
       /\ errorBanner.message = getDiversePrompts(divResult).message
       /\ errorBanner.message # ""
       /\ GenCallIdx = {} /\ CaptionCallIdx = {} /\ dbTasks = <<>>
       /\ galleryMsg = GALLERY_FAILED_TOP
       /\ SuccIdx = {}
       /\ LedgerUntouched
       /\ totalGeneratedCount = 0 /\ uiCounts.total = 0
       /\ downloadHidden

C3_Witness ==
    /\ divResult.kind = "noprompts"
    /\ outcome = "toplevel"
    /\ selectedModel = IMAGEN
    /\ numberOfImages = 2

\* C4: whenever a run that passed validation has ended, the progress bar is
\* hidden and not indeterminate and the generate button is enabled with the
\* label it had before the run.
C4_IdleAtRunEnd ==
    RunEnded
    => /\ progress.hidden /\ ~progress.indeterminate
       /\ ~generateButton.disabled
       /\ generateButton.text = GENERATE_LABEL

C4_Witness ==
    /\ RunEnded
    /\ outcome = "toplevel"
    /\ divResult.kind = "raise"
    /\ progress.label = "Generating diverse prompts..."

\* C5: with an empty prompt field nothing but the error banner ever changes:
\* no request is issued, no save is started, and gallery, button, progress,
\* download, counts and ledger keep their values; the click shows the
\* validation message.
C5_EmptyPromptRejected ==
    promptInput = ""
    => /\ outcome \in {"none", "validation"}
       /\ outcome = "validation"
            => ~errorBanner.hidden /\ errorBanner.message = MSG_ENTER_PROMPT
       /\ netCalls = <<>> /\ dbTasks = <<>>
       /\ pc = "idle"
       /\ galleryMsg = GALLERY_WELCOME /\ placeholders = <<>>
       /\ generateButton = [text |-> GENERATE_LABEL, disabled |-> FALSE]
       /\ progress.hidden /\ ~progress.indeterminate
       /\ downloadHidden
       /\ totalGeneratedCount = 0 /\ uiCounts = updateUiCounts(0, 0)
       /\ generationHistory = <<>> /\ storage = AbsentKey

C5_Witness ==
    /\ promptInput = ""
    /\ outcome = "validation"
    /\ numImagesInput = 2
    /\ diverseSubjectsChecked
    /\ ~errorBanner.hidden

C7_OneEntryPerSuccessfulRun ==
    /\ Len(recorded) <= 1
    /\ (/\ RunEnded
        /\ SuccIdx # {}
        /\ divResult.kind = "array" => Len(divResult.prompts) = numberOfImages)
       => /\ Len(recorded) = 1
          /\ recorded[1].thumbnail = placeholders[NthSucc(1)].image
          /\ recorded[1].prompt = promptInput
          /\ recorded[1].model = generationModelSelect

\* C8: with diversify off the plan is count copies of the base prompt: the
\* multimodal path holds a plan of count entries all equal to it, the image
\* model path issues one request for count images of it; no diversifier
\* request is made and every generation request, caption request, rendered
\* or failed container and started save carries the base prompt.
C8_ConstantPlan ==
    (~diverseSubjectsChecked /\ outcome \notin {"none", "validation"})
    => /\ ~DivCalled
       /\ selectedModel = GEMINI
            => promptsToGenerate = [j \in 1..numImagesInput |-> promptInput]
       /\ selectedModel = IMAGEN
            => netCalls[1] = NetCall("generateImages", promptInput, numImagesInput, 0)
       /\ \A k \in GenCallIdx \cup CaptionCallIdx : netCalls[k].prompt = promptInput
       /\ \A j \in DOMAIN placeholders :
            placeholders[j].kind \in {"image", "failed"}
                => placeholders[j].prompt = promptInput
       /\ \A t \in DOMAIN dbTasks : dbTasks[t].prompt = promptInput
       /\ Len(placeholders) = numImagesInput
       /\ (RunEnded /\ selectedModel = GEMINI)
            => Cardinality(GenCallIdx) = numImagesInput

C8_Witness ==
    /\ RunEnded
    /\ ~diverseSubjectsChecked
    /\ selectedModel = GEMINI
    /\ numImagesInput = 2
    /\ Len(dbTasks) = 2

\* C9: with diversify on and count > 1, when the diversifier returns exactly
\* count strings the plan is that list in that order: the request of unit i
\* carries the i-th string, container i shows the i-th string, and the save
\* started for the k-th rendered unit carries the string of that unit.
C9_DiversePlanInOrder ==
    (/\ divResult.kind = "array"
     /\ numberOfImages > 1
     /\ Len(divResult.prompts) = numberOfImages)
    => /\ promptsToGenerate = divResult.prompts
       /\ \A k \in GenCallIdx \cup CaptionCallIdx :
            /\ netCalls[k].prompt = divResult.prompts[netCalls[k].index]
            /\ netCalls[k].n = 1
       /\ \A j \in DOMAIN placeholders :
            placeholders[j].kind \in {"image", "failed"}
                => placeholders[j].prompt = divResult.prompts[j]
       /\ Len(dbTasks) = Cardinality(SuccIdx)
       /\ \A t \in DOMAIN dbTasks :
            /\ dbTasks[t].prompt = divResult.prompts[NthSucc(t)]
            /\ dbTasks[t].base64 = placeholders[NthSucc(t)].image

C9_Witness ==
    /\ RunEnded
    /\ outcome = "success"
    /\ divResult.prompts = <<"night", "dawn">>
    /\ numberOfImages = 2
    /\ Cardinality(SuccIdx) = 2
    /\ selectedModel = IMAGEN

\* C10: the diversifier is requested only when diversify is on and count is
\* greater than 1; with count 1 every generation request carries the base
\* prompt.
C10_DiversifierOnlyWhenNeeded ==
    /\ DivCalled => (diverseSubjectsChecked /\ numImagesInput > 1)
    /\ numImagesInput = 1
         => \A k \in GenCallIdx : netCalls[k].prompt = promptInput

\* --------------------------------------------------- captions and failures
\* containers that were populated with an image
PopulatedIdx == {j \in DOMAIN placeholders : placeholders[j].kind \in {"image", "loadError"}}

\* in this step the awaited caption request of unit j fails
AwaitedCaptionFails(j) ==
    /\ j \in DOMAIN unitLog
    /\ unitLog[j].caption = "none"
    /\ j \in DOMAIN unitLog'
    /\ unitLog'[j].caption = "raise"

\* in this step the caption request of the load handler of container j fails
OnloadCaptionFails(j) ==
    /\ j \in DOMAIN placeholders
    /\ placeholders[j].img = "captioning"
    /\ j \in DOMAIN placeholders'
    /\ placeholders'[j].capCall = "raise"

\* C11: a failed caption request never propagates.  In the step in which the
\* caption request of a generated image fails, whether awaited by the run or
\* made by the load handler, the unit stays a success: its container shows
\* the image, its save is started with that image, the image is among the
\* run's results, the run goes on (or ends as a success that counts it) and
\* no other container changes.  (The container of the unit exists.)
C11_CaptionFailureContained ==
    [][/\ \A j \in DOMAIN unitLog :
            (AwaitedCaptionFails(j) /\ j <= Len(placeholders)) =>
                /\ placeholders'[j].kind = "image"
                /\ \A k \in DOMAIN placeholders \ {j} : placeholders'[k] = placeholders[k]
                /\ Len(dbTasks') = Len(dbTasks) + 1
                /\ SubSeq(dbTasks', 1, Len(dbTasks)) = dbTasks
                /\ dbTasks'[Len(dbTasks')].base64 = placeholders'[j].image
                /\ \E k \in DOMAIN allGeneratedImages' :
                      allGeneratedImages'[k].imageBytes = placeholders'[j].image
                /\ Len(allGeneratedImages') >= Len(allGeneratedImages)
                /\ outcome' \in {"running", "success"}
                /\ outcome' = "success" =>
                      /\ uiCounts'.gallery = Len(allGeneratedImages')
                      /\ totalGeneratedCount' = totalGeneratedCount + Len(allGeneratedImages')
                /\ outcome' = "running" => pc' \in {"bulk_gen", "batch_caption"}
       /\ \A j \in DOMAIN placeholders :
            OnloadCaptionFails(j) =>
                /\ placeholders'[j].kind = "image"
                /\ placeholders'[j].image = placeholders[j].image
                /\ ~placeholders'[j].loading
                /\ \A k \in DOMAIN placeholders \ {j} : placeholders'[k] = placeholders[k]
                /\ UNCHANGED <<runVars, pageVars, obsVars, dbTasks, netCalls>>]_vars

\* a run of two units ended as a success of two although the awaited caption
\* request of one failed, and the caption request of a load handler failed too
C11_Witness ==
    /\ RunEnded
    /\ outcome = "success"
    /\ uiCounts.gallery = 2
    /\ Len(dbTasks) = 2
    /\ \E j \in DOMAIN unitLog :
         unitLog[j].caption = "raise" /\ placeholders[j].kind = "image"
    /\ \E j \in DOMAIN placeholders :
         placeholders[j].capCall = "raise" /\ placeholders[j].kind = "image"

\* the save started for the populated container j (saves start in the order
\* in which containers are populated)
TaskOf(j) == dbTasks[Cardinality({m \in PopulatedIdx : m <= j})]

\* C12: whenever the caption request of a generated image has failed, the
\* caption its container shows and the caption handed to its save are both
\* exactly "Could not generate caption.".
C12_FallbackCaption ==
    \A j \in DOMAIN placeholders :
        (/\ placeholders[j].kind = "image"
         /\ \/ (j \in DOMAIN unitLog /\ unitLog[j].caption = "raise")
            \/ placeholders[j].capCall = "raise")
        => /\ placeholders[j].caption = MSG_COULD_NOT_CAPTION
           /\ TaskOf(j).caption = MSG_COULD_NOT_CAPTION

\* ------------------------------------------------------------ classifier
\* the first n elements of s
Prefix(s, n) == [k \in 1..(IF Len(s) < n THEN Len(s) ELSE n) |-> s[k]]

\* C13: the classifier never fails outward.  When its backing call raises or
\* answers text that is not JSON, the save goes on and the record it sends
\* carries the title made of the first 50 characters of the prompt and the
\* category "Other", with the other fields of the save untouched.
C13_ClassifierFallback ==
    (/\ probeOut.fn = "saveImageToDatabase"
     /\ probeIn.resp.kind \in {"raise", "malformed"})
    => /\ probeOut.task.stage = "sent"
       /\ probeOut.task.title = Prefix(Chars(probeIn.task.prompt), 50)
       /\ probeOut.task.category = "Other"
       /\ probeOut.task.prompt = probeIn.task.prompt
       /\ probeOut.task.base64 = probeIn.task.base64
       /\ probeOut.task.caption = probeIn.task.caption
       /\ probeOut.task.model = probeIn.task.model

\* the classifier answered text that is not JSON for a prompt of more than 50
\* characters, and the record sent has a title of 50
C13_Witness ==
    /\ probeOut.fn = "saveImageToDatabase"
    /\ probeIn.resp.kind = "malformed"
    /\ Len(Chars(probeIn.task.prompt)) > 50
    /\ Len(probeOut.task.title) = 50
    /\ probeOut.task.category = "Other"

\* ------------------------------------------------------------ persistence
\* the steps of a run after its start
RunReturns ==
    \/ SeqDiversifierReturns
    \/ SeqGenReturns
    \/ BulkDiversifierReturns
    \/ BulkGenReturns
    \/ BulkCaptionReturns
    \/ BatchGenReturns
    \/ BatchCaptionReturns

\* in this step a started save gets the answer of its classifier
SaveSettles ==
    \E t \in DOMAIN dbTasks :
        /\ t \in DOMAIN dbTasks'
        /\ dbTasks[t].stage = "classify"
        /\ dbTasks'[t].stage = "sent"

\* C14: saves are detached.  A run that has not ended can always take its
\* next step, whatever stage the saves it started are in; a step in which a
\* save settles, with whatever answer of the classifier, changes nothing of
\* the run (containers, progress, counts, ledger, storage, outcome); and a
\* step of the run leaves the saves already started as they are.
C14_PersistDetached ==
    /\ [](pc # "idle" => ENABLED RunReturns)
    /\ [][/\ SaveSettles =>
              UNCHANGED <<placeholders, runVars, pageVars, obsVars, netCalls>>
          /\ ~SaveSettles =>
              /\ Len(dbTasks') >= Len(dbTasks)
              /\ SubSeq(dbTasks', 1, Len(dbTasks)) = dbTasks]_vars

\* a run of two units has ended as a success while the save of one unit still
\* waits for its classifier and the classifier of the other has failed
C14_Witness ==
    /\ RunEnded
    /\ outcome = "success"
    /\ uiCounts.gallery = 2
    /\ \E t \in DOMAIN dbTasks : dbTasks[t].stage = "classify"
    /\ \E t \in DOMAIN dbTasks : dbTasks[t].stage = "sent" /\ dbTasks[t].classify = "failed"

\* C15: when a run has ended, the number of saves it started equals the
\* number of units it counted as successful: the count added to the running
\* total and the count shown for the gallery.
C15_OneSavePerCountedUnit ==
    RunEnded =>
        /\ Len(dbTasks) = totalGeneratedCount
        /\ Len(dbTasks) = uiCounts.gallery

\* ------------------------------------------------ multimodal path, one unit
\* in this step the response of unit j arrives without an image part
NoImageArrives(j) ==
    /\ selectedModel = GEMINI
    /\ j \in DOMAIN genOutcome
    /\ genOutcome[j] = "none"
    /\ j \in DOMAIN genOutcome'
    /\ genOutcome'[j] = "noimage"

\* C16: on the multimodal path a unit whose response has no image part fails
\* with the reason "Model did not return an image for this prompt.": no image
\* is counted for it, its container shows the failure, no save is started,
\* every other container stays as it is and the run goes on to the next unit;
\* and in a run of two units where only the second response lacks an image,
\* the first unit is rendered, the run is a success of one and the history
\* entry carries the image of the first unit.
C16_NoImageUnitFails ==
    /\ [](( /\ RunEnded
            /\ selectedModel = GEMINI
            /\ numberOfImages = 2
            /\ genOutcome = <<"ok", "noimage">> )
          => /\ placeholders[1].kind = "image"
             /\ placeholders[2].kind = "failed"
             /\ outcome = "success"
             /\ uiCounts.gallery = 1
             /\ Len(dbTasks) = 1
             /\ dbTasks[1].base64 = placeholders[1].image
             /\ Len(recorded) = 1
             /\ recorded[1].thumbnail = placeholders[1].image
             /\ generationHistory[1] = recorded[1])
    /\ [][\A j \in DOMAIN genOutcome :
            NoImageArrives(j) =>
                /\ unitLog'[j].caught = MSG_NO_IMAGE
                /\ allGeneratedImages' = allGeneratedImages
                /\ dbTasks' = dbTasks
                /\ j <= Len(placeholders) =>
                      /\ placeholders'[j].kind = "failed"
                      /\ placeholders'[j].image = ""
                /\ \A k \in DOMAIN placeholders \ {j} : placeholders'[k] = placeholders[k]
                /\ outcome' # "toplevel"
                /\ j < Len(promptsToGenerate) => (pc' = "seq_gen" /\ i' = j + 1)]_vars

\* the run of two units whose second response had no image has ended, with
\* the history entry carrying the image of the first unit
C16_Witness ==
    /\ RunEnded
    /\ selectedModel = GEMINI
    /\ numberOfImages = 2
    /\ genOutcome = <<"ok", "noimage">>
    /\ unitLog[2].caught = MSG_NO_IMAGE
    /\ placeholders[2].kind = "failed"
    /\ Len(generationHistory) = 1
    /\ generationHistory[1].thumbnail = placeholders[1].image

\* indices of the parts that carry an image, a text
ImageIdx(parts) == {j \in DOMAIN parts : parts[j].data # ""}
TextIdx(parts) == {j \in DOMAIN parts : parts[j].text # ""}
Least(S) == CHOOSE j \in S : \A k \in S : j <= k

\* C17: on the multimodal path, for every sequence of text and image parts,
\* the image of the unit is the first image part, its inline caption is the
\* first text part, and its mime type is the one of the part the image bytes
\* were taken from.
C17_FirstPartsWin ==
    probeOut.fn = "scan" =>
        LET parts == probeIn.parts IN
        /\ ImageIdx(parts) # {} =>
              /\ probeOut.imageBase64 = parts[Least(ImageIdx(parts))].data
              /\ \E j \in ImageIdx(parts) :
                    /\ parts[j].data = probeOut.imageBase64
                    /\ parts[j].mime = probeOut.mimeType
        /\ TextIdx(parts) # {} =>
              probeOut.captionText = parts[Least(TextIdx(parts))].text

\* the requests of a run in the order in which they were issued, the
\* diversifier request aside
GenCalls == SelectSeq(netCalls, LAMBDA c : c.api # "getDiversePrompts")

\* C18: on the multimodal path no caption request is ever made, neither by
\* the run nor by the load handler of an image, whether or not the response
\* carried a text: the requests of a run are at most one diversifier request,
\* issued first, and one generateContent request per unit, in unit order,
\* one for every unit once the run has ended without a top-level failure.
C18_NoCaptionCallOnSequentialPath ==
    selectedModel = GEMINI =>
        /\ \A k \in DOMAIN netCalls : netCalls[k].api # "generateCaption"
        /\ \A j \in DOMAIN placeholders :
              placeholders[j].img # "captioning" /\ placeholders[j].capCall = "none"
        /\ \A k \in DOMAIN netCalls : netCalls[k].api = "getDiversePrompts" => k = 1
        /\ \A k \in DOMAIN GenCalls :
              /\ GenCalls[k].api = "generateContent"
              /\ GenCalls[k].index = k
              /\ GenCalls[k].n = 1
        /\ (RunEnded /\ outcome # "toplevel") => Len(GenCalls) = Len(promptsToGenerate)

\* a run on the multimodal path has ended and the image of a unit whose
\* response carried a text has loaded under that text
C18_Witness ==
    /\ RunEnded
    /\ selectedModel = GEMINI
    /\ \E j \in DOMAIN placeholders :
         /\ placeholders[j].kind = "image"
         /\ placeholders[j].caption = "capA"
         /\ placeholders[j].img = "loaded"
         /\ ~placeholders[j].loading
    /\ \E j \in DOMAIN placeholders :
         /\ placeholders[j].kind = "image"
         /\ placeholders[j].caption = CAPTION_NOT_AVAILABLE
         /\ placeholders[j].img = "loaded"

\* ------------------------------------------------------------- the ledger
\* an element with the fields of a history entry
IsEntry(e) == "timestamp" \in DOMAIN e

\* entries of h listed most recent first
MostRecentFirst(h) ==
    \A a, b \in DOMAIN h :
        (a < b /\ IsEntry(h[a]) /\ IsEntry(h[b])) => h[a].timestamp >= h[b].timestamp

\* C19: with a clock that never goes back, after any runs the ledger in
\* memory and the ledger loadHistory would read back from storage both list
\* their entries most recent first.
C19_LedgerMostRecentFirst ==
    /\ MostRecentFirst(generationHistory)
    /\ MostRecentFirst(loadHistory(storage, <<>>).history)

\* two runs of this page succeeded at different times and both entries are
\* in the ledger and in storage, the later one first
C19_Witness ==
    /\ pc = "idle"
    /\ Len(generationHistory) = 2
    /\ \A k \in DOMAIN generationHistory : IsEntry(generationHistory[k])
    /\ generationHistory[1].timestamp = 2
    /\ generationHistory[2].timestamp = 1
    /\ storage = JSONstringify(generationHistory)
    /\ loadHistory(storage, <<>>).history = generationHistory

\* stored text that is not the JSON of a list of history entries
Corrupt(stored) ==
    \/ stored.kind \in {"unparseable", "nonlist"}
    \/ stored.kind = "json" /\ \E k \in DOMAIN stored.items : ~IsEntry(stored.items[k])

\* C20: loadHistory never raises.  On the page as initializeApp leaves it,
\* the ledger is empty when the key is absent and when the stored text is
\* corrupt (not JSON, or JSON that is not a list of history entries), and the
\* page is ready for a run.
C20_LoadNeverRaises ==
    outcome = "none" =>
        /\ storage.kind = "absent" => generationHistory = <<>>
        /\ Corrupt(storage) => generationHistory = <<>>
        /\ pc = "idle"
        /\ ~generateButton.disabled
        /\ galleryMsg = GALLERY_WELCOME

\* ---------------------------------------------------------------- C21
\* one run from the loaded page with any count in the count field, those
\* below 1 included; the saves stay pending
InitCount ==
    /\ promptInput = "fox"
    /\ numImagesInput \in BadCounts \cup Counts
    /\ generationModelSelect \in Models
    /\ diverseSubjectsChecked \in BOOLEAN
    /\ InitPage
    /\ generationHistory = <<>>
    /\ storage = AbsentKey
    /\ probeIn = NoProbe
    /\ probeOut = NoProbe

NextCount ==
    \/ FirstClick
    \/ SeqDiversifierReturns
    \/ SeqGenReturns
    \/ BulkDiversifierReturns
    \/ BulkGenReturns
    \/ BulkCaptionReturns
    \/ BatchGenReturns
    \/ BatchCaptionReturns

SpecCount == InitCount /\ [][NextCount]_vars

\* C21: a run whose count is below 1 never reaches prompt planning or unit
\* generation and issues no network call
C21_CountValidated ==
    numImagesInput < 1 =>
        /\ netCalls = <<>>
        /\ promptsToGenerate = <<>>
        /\ pc = "idle"

\* ---------------------------------------------------------------- C22
\* C22: at most one run is active at a time: the generate button is disabled
\* exactly while a run is in flight, so that no click can start generateImages
\* again before the run has ended
C22_SingleRun ==
    /\ generateButton.disabled <=> pc # "idle"
    /\ pc # "idle" => ~ENABLED GenerateClick

\* a second run is in flight, past its first await
C22_Witness ==
    /\ pc = "batch_caption"
    /\ Len(generationHistory) = 1
    /\ generateButton.disabled
    /\ ~ENABLED GenerateClick

\* ---------------------------------------------------------------- C23
\* the run took the image model path with one batched request
BatchPath ==
    /\ netCalls # <<>>
    /\ netCalls[1].api = "generateImages"
    /\ netCalls[1].index = 0

\* unit j has been finalized: its request has settled and, where a caption is
\* awaited before rendering, that one as well
UnitDone(j) ==
    /\ genOutcome[j] # "none"
    /\ ~(pc = "bulk_caption" /\ j = i)
    /\ ~(pc = "batch_caption" /\ j >= i)

\* unit j failed; the images a batched response is short of are no units
UnitFailed(j) ==
    /\ genOutcome[j] \in {"raise", "noimage"}
    /\ ~(BatchPath /\ allGeneratedImages # <<>>)

\* the number of units up to j whose request produced an image
OkRank(j) == Cardinality({m \in 1..j : genOutcome[m] = "ok"})

\* the prompt of plan index j
PlanPrompt(j) == IF BatchPath THEN prompt ELSE promptsToGenerate[j]

\* C23: on every path the image of the successful unit with plan index j is
\* rendered in container j together with the prompt of plan index j, and the
\* failure message of a failed unit is written to container j and to no other
C23_IndexKeyedPlacement ==
    /\ \A j \in DOMAIN genOutcome :
         UnitDone(j) =>
           /\ genOutcome[j] = "ok" =>
                /\ j \in DOMAIN placeholders
                /\ placeholders[j].kind = "image"
                /\ placeholders[j].image = allGeneratedImages[OkRank(j)].imageBytes
                /\ placeholders[j].prompt = PlanPrompt(j)
           /\ UnitFailed(j) =>
                /\ j \in DOMAIN placeholders
                /\ \/ placeholders[j] = FailedSlot(PlanPrompt(j))
                   \/ placeholders[j] = FailedAllSlot
    /\ \A s \in DOMAIN placeholders :
         /\ placeholders[s].kind \in {"failed", "failedAll"} =>
              s \in DOMAIN genOutcome /\ UnitFailed(s)
         /\ placeholders[s].kind = "image" =>
              s \in DOMAIN genOutcome /\ genOutcome[s] = "ok"

\* ---------------------------------------------------------------- C24
\* the progress bar shows "Generating image current of total..."
Determinate == ~progress.hidden /\ ~progress.indeterminate

\* the units of the run that have been finalized
DoneUnits == {j \in DOMAIN genOutcome : UnitDone(j)}

\* C24 as stated: whenever the progress is determinate, exactly current units
\* of the run have completed and total is the length of the plan
C24_ProgressAfterCompletion ==
    Determinate =>
        /\ Cardinality(DoneUnits) = progress.current
        /\ progress.total = Len(promptsToGenerate)

\* C24 amended: whenever the progress is determinate, current is the index of
\* the unit being generated: exactly current - 1 units have completed, the
\* request of unit current is in flight, and total is the length of the plan
C24_ProgressNamesUnitInFlight ==
    Determinate =>
        /\ pc \in {"seq_gen", "bulk_gen", "bulk_caption"}
        /\ progress.current = i
        /\ DoneUnits = 1..(progress.current - 1)
        /\ progress.current \in DOMAIN genOutcome
        /\ progress.total = Len(promptsToGenerate)

\* the second unit is being generated after the first has completed
C24_Witness ==
    /\ Determinate
    /\ progress.current = 2
    /\ DoneUnits = {1}
    /\ pc = "bulk_caption"

\* ---------------------------------------------------------------- C25
\* the generateContent requests of the run, and the units whose request has
\* settled (the rest of the iteration runs in the same step)
ContentCalls == SelectSeq(netCalls, LAMBDA c : c.api = "generateContent")
SettledUnits == {j \in DOMAIN genOutcome : genOutcome[j] # "none"}

\* C25: on the multimodal path the plan is iterated in index order and
\* strictly sequentially: at most one generateContent request is in flight at
\* any moment, and the request of a unit is issued only after every unit
\* before it has been finalized
C25_StrictlySequential ==
    selectedModel = GEMINI =>
        /\ \A k \in DOMAIN ContentCalls :
              /\ ContentCalls[k].index = k
              /\ ContentCalls[k].prompt = promptsToGenerate[k]
        /\ Len(ContentCalls) - Cardinality(SettledUnits) = IF pc = "seq_gen" THEN 1 ELSE 0
        /\ SettledUnits = 1..Cardinality(SettledUnits)
        /\ pc = "seq_gen" => i = Len(ContentCalls)

\* the request of the second unit is in flight after the first was finalized
C25_Witness ==
    /\ selectedModel = GEMINI
    /\ pc = "seq_gen"
    /\ Len(ContentCalls) = 2
    /\ SettledUnits = {1}
    /\ placeholders[1].kind \in {"image", "failed"}

\* ------------------------------------------------- the ledger, with clear
\* mutant: the click leaves the ledger as it is
clearHistory_keepsAll(h) == h

\* mutant: only the newest entry is dropped
clearHistory_dropsNewest(h) == IF h = <<>> THEN h ELSE Tail(h)

\* clearHistory: generationHistory = []
clearHistory(h) == <<>>

\* click on the clear button: clearHistory, with its saveHistory and
\* renderHistory; quota: localStorage.setItem throws
ClearHistoryClick ==
    /\ generationHistory' = clearHistory(generationHistory)
    /\ \E quota \in BOOLEAN :
         /\ storage' = IF quota THEN storage
                       ELSE JSONstringify(clearHistory(generationHistory))
         /\ errorBanner' = IF quota THEN displayError(MSG_SAVE_HISTORY) ELSE errorBanner
    /\ UNCHANGED <<inputVars, probeVars, now, runVars, obsVars, placeholders, dbTasks,
                   netCalls, generateButton, galleryMsg, downloadHidden, progress,
                   uiCounts, totalGeneratedCount>>

\* click on item k of the rendered ledger: its prompt and model go to the
\* input controls (a stored object without these fields gives the text
\* "undefined" and no selected option)
HistoryItemClick ==
    /\ \E k \in DOMAIN generationHistory :
         LET item == generationHistory[k] IN
         /\ promptInput' = IF IsEntry(item) THEN item.prompt ELSE "undefined"
         /\ generationModelSelect' = IF IsEntry(item) THEN item.model ELSE ""
    /\ UNCHANGED <<numImagesInput, diverseSubjectsChecked, probeVars, now, runVars,
                   pageVars, obsVars, placeholders, dbTasks, netCalls>>

\* a click on the generate button while few images have been generated
HistoryRunClick == totalGeneratedCount < MaxRuns /\ GenerateClick

NextHistory ==
    \/ HistoryRunClick
    \/ SeqGenReturns
    \/ BatchGenReturns
    \/ BatchCaptionReturns
    \/ ClearHistoryClick
    \/ HistoryItemClick

SpecHistory == InitLedger /\ [][NextHistory]_vars

\* ---------------------------------------------------------------- C26
\* C26: no entry of the ledger is ever changed or removed on its own: in every
\* step the ledger stays as it is, or gets one new entry at the front (only
\* when a run ends with a result), or is emptied (only by clearHistory)
C26_LedgerFrame ==
    [][\/ generationHistory' = generationHistory
       \/ /\ generationHistory' # <<>>
          /\ Tail(generationHistory') = generationHistory
          /\ IsEntry(Head(generationHistory'))
          /\ pc # "idle" /\ pc' = "idle" /\ outcome' = "success"
       \/ /\ generationHistory' = <<>>
          /\ ClearHistoryClick]_vars

\* the ledger holds the entry loaded from storage, unchanged, behind the one
\* a run recorded
C26_Witness ==
    /\ Len(generationHistory) = 2
    /\ generationHistory[2] = OldItem
    /\ generationHistory[1].timestamp > 0
    /\ storage = JSONstringify(generationHistory)

\* ---------------------------------------------------------------- C27
\* in this step a run records a new entry
RecordStep == Len(generationHistory') = Len(generationHistory) + 1

\* in this step saveHistory fails: storage keeps its text, the message is shown
SaveFails ==
    /\ storage' = storage
    /\ errorBanner' = displayError(MSG_SAVE_HISTORY)

\* C27 as stated: after clearHistory the ledger is empty and loadHistory
\* reads the empty ledger back from storage, whatever the ledger held, and
\* after every record loadHistory reads back the ledger in memory, in order
C27_ClearAndRecordPersist ==
    [][/\ ClearHistoryClick =>
            /\ generationHistory' = <<>>
            /\ loadHistory(storage', <<>>).history = <<>>
       /\ RecordStep =>
            loadHistory(storage', <<>>).history = generationHistory']_vars

\* C27 amended: clearHistory always empties the ledger in memory and a record
\* always extends it; loadHistory reads the same ledger back from storage
\* when localStorage.setItem succeeds, and when it throws storage keeps the
\* text it had and the message about saving the history is shown
C27_PersistUnlessWriteFails ==
    [][/\ ClearHistoryClick =>
            /\ generationHistory' = <<>>
            /\ \/ /\ storage' = JSONstringify(generationHistory')
                  /\ loadHistory(storage', <<>>).history = <<>>
               \/ SaveFails
       /\ RecordStep =>
            /\ Tail(generationHistory') = generationHistory
            /\ \/ /\ storage' = JSONstringify(generationHistory')
                  /\ loadHistory(storage', <<>>).history = generationHistory'
               \/ SaveFails]_vars

\* a run recorded an entry, then the ledger was cleared and the empty ledger
\* was written
C27_Witness ==
    /\ recorded # <<>>
    /\ totalGeneratedCount = 1
    /\ generationHistory = <<>>
    /\ storage = JSONstringify(<<>>)
    /\ loadHistory(storage, <<>>).history = <<>>

\* ---------------------------------------------------------------- C28
\* the generateImages requests of the run
ImageCalls == SelectSeq(netCalls, LAMBDA c : c.api = "generateImages")

\* C28: a run on the image model path makes, with diversify off, exactly one
\* generateImages request, for the base prompt and all count images, and with
\* diversify on exactly one request per diversified prompt, each for 1 image
C28_BulkCallCount ==
    (RunEnded /\ selectedModel = IMAGEN) =>
        IF ~diverseSubjectsChecked
        THEN ImageCalls = <<NetCall("generateImages", prompt, numberOfImages, 0)>>
        ELSE /\ Len(ImageCalls) = Len(promptsToGenerate)
             /\ \A k \in DOMAIN ImageCalls :
                  ImageCalls[k] = NetCall("generateImages", promptsToGenerate[k], 1, k)

\* ---------------------------------------------------------------- C29
\* C29: every record handed to the remote API has a title and a category,
\* also when the text of the classifier is JSON of an object that lacks the
\* title, the category or both
C29_RecordHasTitleAndCategory ==
    (/\ probeOut.fn = "saveImageToDatabase"
     /\ probeOut.task.stage = "sent")
    => probeOut.task.absent = {}

\* ---------------------------------------------------------------- C30
\* one run of one unit from the loaded page, with the saves it starts: the
\* classifier answers with a text of any shape, the write settles either way
InitPersist ==
    /\ promptInput = "fox"
    /\ numImagesInput = 1
    /\ generationModelSelect \in Models
    /\ diverseSubjectsChecked = FALSE
    /\ InitPage
    /\ generationHistory = <<>>
    /\ storage = AbsentKey
    /\ probeIn = NoProbe
    /\ probeOut = NoProbe

NextPersist ==
    \/ FirstClick
    \/ SeqGenReturns
    \/ BatchGenReturns
    \/ BatchCaptionReturns
    \/ PersistClassifyReturnsAny
    \/ FetchSettles

SpecPersist == InitPersist /\ [][NextPersist]_vars

\* C30: every save first gets the answer of its one classifier request and
\* only then issues the write, and it issues at most one write, whatever the
\* answer of the classifier and however the write ends
C30_OneWriteAfterClassifier ==
    /\ [](\A t \in DOMAIN dbTasks :
            /\ dbTasks[t].writes <= 1
            /\ dbTasks[t].writes = 1 <=> dbTasks[t].stage \in {"sent", "written", "writeFailed"}
            /\ dbTasks[t].stage = "classify" <=> dbTasks[t].classify = "none")
    /\ [][\A t \in DOMAIN dbTasks :
            /\ t \in DOMAIN dbTasks'
            /\ dbTasks'[t] # dbTasks[t] =>
                 \/ /\ dbTasks[t].stage = "classify"
                    /\ dbTasks'[t].stage \in {"sent", "failed"}
                    /\ dbTasks'[t].classify # "none"
                 \/ /\ dbTasks[t].stage = "sent"
                    /\ dbTasks'[t].stage \in {"written", "writeFailed"}
                    /\ dbTasks'[t].writes = dbTasks[t].writes]_vars

\* the classifier of a save failed, its one write was issued and failed too
C30_Witness ==
    \E t \in DOMAIN dbTasks :
        /\ dbTasks[t].classify = "failed"
        /\ dbTasks[t].stage = "writeFailed"
        /\ dbTasks[t].writes = 1

\* ---------------------------------------------------------------- C31
\* C31: when a run with at least one successful unit has ended, every
\* container created for it shows an image or a failure message: none is
\* still the empty loading container it was created as
C31_NoSlotLeftLoading ==
    (RunEnded /\ outcome = "success") =>
        \A j \in DOMAIN placeholders : placeholders[j].kind # "empty"

\* ---------------------------------------------------------------- C32
\* C32: the running total counts exactly the units rendered in the gallery:
\* after a run from the loaded page it is the number of containers showing an
\* image, it is unchanged by a run that fails validation, ends in the outer
\* catch or has no successful unit, and it never decreases
C32_TotalIsExactAggregate ==
    /\ [](pc = "idle" =>
            totalGeneratedCount =
                IF outcome = "success" THEN Cardinality(SuccIdx) ELSE 0)
    /\ [][totalGeneratedCount' >= totalGeneratedCount]_vars

\* ---------------------------------------------------------------- C33
\* the units of the run for which the model returned an image
OkUnits == {j \in DOMAIN genOutcome : genOutcome[j] = "ok"}

EditCount ==
    /\ \E n \in Counts : n # numImagesInput /\ numImagesInput' = n
    /\ UNCHANGED <<promptInput, generationModelSelect, diverseSubjectsChecked, probeVars,
                   now, runVars, pageVars, obsVars, placeholders, dbTasks, netCalls>>

\* the user toggles the diversify checkbox
ToggleDiverse ==
    /\ diverseSubjectsChecked' = ~diverseSubjectsChecked
    /\ UNCHANGED <<promptInput, numImagesInput, generationModelSelect, probeVars,
                   now, runVars, pageVars, obsVars, placeholders, dbTasks, netCalls>>

\* the page with one entry of an earlier session in the ledger and another
\* prompt in the prompt field
InitEdit ==
    /\ promptInput = "night"
    /\ numImagesInput \in Counts
    /\ generationModelSelect \in Models
    /\ diverseSubjectsChecked \in BOOLEAN
    /\ InitPage
    /\ storage = JSONstringify(<<OldItem>>)
    /\ generationHistory = loadHistory(storage, <<>>).history
    /\ probeIn = NoProbe
    /\ probeOut = NoProbe

\* one run, with the input controls changed while it is in flight
NextEdit ==
    \/ FirstClick
    \/ SeqDiversifierReturns
    \/ SeqGenReturns
    \/ BulkDiversifierReturns
    \/ BulkGenReturns
    \/ BulkCaptionReturns
    \/ BatchGenReturns
    \/ BatchCaptionReturns
    \/ (pc # "idle" /\ HistoryItemClick)
    \/ (pc # "idle" /\ EditCount)
    \/ (pc # "idle" /\ ToggleDiverse)

SpecEdit == InitEdit /\ [][NextEdit]_vars

\* everything but the input controls
nonInputVars == <<runVars, pageVars, obsVars, placeholders, dbTasks, netCalls, now>>

\* C34: a run works on the inputs as they were at its start.  The click reads
\* the prompt, the count, the model and the diversify flag; afterwards they do
\* not change for the run, a change of the input controls changes nothing
\* else, and the requests, the path and the history entry are those of the
\* values read
C34_InputsSnapshot ==
    /\ [](outcome \notin {"none", "validation"} =>
            /\ netCalls # <<>> =>
                 /\ netCalls[1].prompt = prompt
                 /\ netCalls[1].api # "generateContent" => netCalls[1].n = numberOfImages
            /\ \A k \in GenCallIdx :
                 /\ netCalls[k].api = IF selectedModel = GEMINI THEN "generateContent"
                                      ELSE "generateImages"
                 /\ netCalls[k].prompt = IF DivCalled THEN promptsToGenerate[netCalls[k].index]
                                         ELSE prompt
            /\ ~DivCalled => Len(placeholders) = numberOfImages
            /\ (DivCalled /\ promptsToGenerate # <<>>) =>
                 promptsToGenerate = DiversePlan(divResult.prompts)
            /\ recorded # <<>> =>
                 /\ recorded[1].prompt = prompt
                 /\ recorded[1].model = selectedModel)
    /\ [][/\ (pc = "idle" /\ pc' # "idle") =>
               /\ prompt' = promptInput
               /\ numberOfImages' = numImagesInput
               /\ selectedModel' = generationModelSelect
               /\ DivCalled' <=> UseDiversifier(generationModelSelect, diverseSubjectsChecked,
                                                numImagesInput)
          /\ pc # "idle" =>
               /\ UNCHANGED <<prompt, numberOfImages, selectedModel>>
               /\ netCalls'[1] = netCalls[1]
          /\ inputVars' # inputVars => UNCHANGED nonInputVars]_vars

\* a run ended with an entry for the prompt and the model read at its start,
\* after an item was clicked, the count edited and the checkbox toggled
C34_Witness ==
    /\ RunEnded
    /\ outcome = "success"
    /\ promptInput # prompt
    /\ generationModelSelect # selectedModel
    /\ numImagesInput # numberOfImages
    /\ diverseSubjectsChecked # DivCalled
    /\ recorded[1].prompt = prompt
    /\ recorded[1].model = selectedModel

\* ---------------------------------------------------------------- C35
\* the caption requests made for the image of container j
CaptionCallsOf(j) == {k \in CaptionCallIdx : netCalls[k].index = j}

\* C35: on the image model path at most one caption request is made for an
\* image, whatever the awaited caption request gave: an image rendered with
\* the caption of the run asks for none when it loads
C35_OneCaptionCallPerImage ==
    selectedModel = IMAGEN =>
        \A j \in DOMAIN placeholders : Cardinality(CaptionCallsOf(j)) <= 1

\* ---------------------------------------------------------------- C36
\* a run is in flight
InFlight == pc # "idle"

\* in this step the run in flight ends with a result
EndsWithResult == InFlight /\ pc' = "idle" /\ outcome' = "success"

\* the entry the step recorded
NewEntry == recorded'[Len(recorded')]

\* C36 as stated: clearHistory during a run empties the ledger and leaves
\* the run in flight, the ledger then stays empty for the rest of the run,
\* and when the run ends with a result the ledger in memory and the ledger
\* loadHistory reads back from storage hold the new entry and nothing else
C36_ClearInFlightKept ==
    [][/\ (InFlight /\ ClearHistoryClick) =>
            /\ generationHistory' = <<>>
            /\ InFlight'
       /\ (InFlight /\ generationHistory = <<>>) =>
            /\ InFlight' => generationHistory' = <<>>
            /\ EndsWithResult =>
                 /\ generationHistory' = <<NewEntry>>
                 /\ loadHistory(storage', <<>>).history = generationHistory']_vars

\* C36 amended: as stated for the ledger in memory; the ledger in storage is
\* the one in memory when localStorage.setItem succeeds at the end of the
\* run, and when it throws storage keeps the text it had and the message
\* about saving the history is shown
C36_ClearInFlightKeptInMemory ==
    [][/\ (InFlight /\ ClearHistoryClick) =>
            /\ generationHistory' = <<>>
            /\ InFlight'
       /\ (InFlight /\ generationHistory = <<>>) =>
            /\ InFlight' => generationHistory' = <<>>
            /\ EndsWithResult =>
                 /\ generationHistory' = <<NewEntry>>
                 /\ NewEntry.prompt = prompt
                 /\ \/ /\ storage' = JSONstringify(generationHistory')
                       /\ loadHistory(storage', <<>>).history = generationHistory'
                    \/ SaveFails]_vars

\* a run ended with a result after the ledger was cleared while it was in
\* flight: the ledger, in memory and in storage, is the new entry, and the
\* message still shown is that of the failed write of the empty ledger (the
\* click that started the run hid every earlier message, and a clear after
\* the run would have emptied the ledger)
C36_Witness ==
    /\ RunEnded
    /\ outcome = "success"
    /\ generationHistory = <<recorded[Len(recorded)]>>
    /\ storage = JSONstringify(generationHistory)
    /\ errorBanner = displayError(MSG_SAVE_HISTORY)

\* ---------------------------------------------------------------- C37
\* C37: when localStorage.setItem throws while a run records its entry, the
\* run ends as a run with a result: the entry is at the front of the ledger
\* in memory, the total grows by the images of the run, the download button
\* is shown, the controls are restored, the gallery keeps its images, and
\* the message about saving the history is what is shown
C37_SaveFailureDoesNotFailRun ==
    [][(RecordStep /\ SaveFails) =>
          /\ pc' = "idle"
          /\ outcome' = "success"
          /\ generationHistory' = <<NewEntry>> \o generationHistory
          /\ IsEntry(NewEntry)
          /\ allGeneratedImages' # <<>>
          /\ totalGeneratedCount' = totalGeneratedCount + Len(allGeneratedImages')
          /\ uiCounts' = updateUiCounts(Len(allGeneratedImages'), totalGeneratedCount')
          /\ downloadHidden' = FALSE
          /\ galleryMsg' = galleryMsg
          /\ generateButton' = FinallyButton(originalButtonText)
          /\ progress'.hidden
          /\ errorBanner' = displayError(MSG_SAVE_HISTORY)]_vars

\* a run ended with a result that is in the ledger in memory and not in
\* storage: the write failed, the message is shown, the images are counted
\* and the download button is there
C37_Witness ==
    /\ RunEnded
    /\ outcome = "success"
    /\ errorBanner = displayError(MSG_SAVE_HISTORY)
    /\ generationHistory # <<>>
    /\ generationHistory[1] = recorded[Len(recorded)]
    /\ loadHistory(storage, <<>>).history # generationHistory
    /\ totalGeneratedCount >= 1
    /\ ~downloadHidden

\* ---------------------------------------------------------------- C38
\* every request of the run (diversifier, generation, caption) settles: the
\* continuation of a settled await is run.  Nothing is assumed of the
\* classifier requests of the background saves
RunFairness ==
    /\ WF_vars(SeqDiversifierReturns)
    /\ WF_vars(SeqGenReturns)
    /\ WF_vars(BulkDiversifierReturns)
    /\ WF_vars(BulkGenReturns)
    /\ WF_vars(BulkCaptionReturns)
    /\ WF_vars(BatchGenReturns)
    /\ WF_vars(BatchCaptionReturns)

SpecLive == Init /\ [][Next]_vars /\ RunFairness

\* a background save of the run is still waiting for its classifier
SavePending == \E t \in DOMAIN dbTasks : dbTasks[t].stage = "classify"

\* the run is over and the controls are as before it
Restored ==
    /\ pc = "idle"
    /\ generateButton = FinallyButton(originalButtonText)
    /\ ~generateButton.disabled
    /\ progress.hidden

\* C38: a run in flight leads to the idle state with the trigger enabled
\* under its label and the progress bar hidden, and does so also when no
\* background save ever gets its answer
C38_RunTerminates == InFlight ~> Restored

\* a run ended with the controls restored while the save of its image has
\* had no answer from the classifier
C38_Witness ==
    /\ Restored
    /\ RunEnded
    /\ SavePending

\* ------------------------------------------------- the fan-out variant (C39)
\* a request that has not settled
Pending == [kind |-> "pending", generatedImages |-> <<>>]

\* the variables the fan-out variant of generateImages has no part in
fanOutFrame == <<inputVars, probeIn, now, progress, uiCounts, totalGeneratedCount,
                 generationHistory, storage, prompt, selectedModel, i, curImage, dbTasks,
                 divResult, genOutcome, recorded, unitLog>>

\* the container after populateImageContainer of the variant: image and
\* 'Generating caption...', the load handler asks for the caption with the
\* prompt given
populateImageContainerFanOut(imageData, imagePrompt) ==
    [kind |-> "image", loading |-> TRUE, image |-> imageData.imageBytes,
     prompt |-> imagePrompt, caption |-> GENERATING_CAPTION, img |-> "pending",
     onload |-> "caption", capCall |-> "none"]

\* responses.forEach(response => allGeneratedImages.push(...response.generatedImages))
RECURSIVE Flatten(_)
Flatten(responses) ==
    IF responses = <<>> THEN <<>>
    ELSE Head(responses).generatedImages \o Flatten(Tail(responses))

\* the finally block of the variant
FanOutFinally ==
    /\ generateButton' = FinallyButton(originalButtonText)
    /\ pc' = "idle"

\* the catch block of the variant, then finally
FanOutCatch(message) ==
    /\ errorBanner' = displayError(ErrorMessageText(message))
    /\ galleryMsg' = GALLERY_FAILED_TOP
    /\ outcome' = "toplevel"
    /\ FanOutFinally
    /\ UNCHANGED <<placeholders, downloadHidden, allGeneratedImages>>

\* the images go to the containers by their place in allGeneratedImages, each
\* with the prompt at the same place of promptsForImages; then finally
FanOutRender(all, promptsForImages) ==
    /\ allGeneratedImages' = all
    /\ IF Len(all) > 0
       THEN /\ placeholders' =
                 [j \in DOMAIN placeholders |->
                     IF j <= Len(all)
                     THEN populateImageContainerFanOut(all[j], promptsForImages[j])
                     ELSE placeholders[j]]
            /\ downloadHidden' = FALSE
            /\ galleryMsg' = galleryMsg
            /\ outcome' = "success"
       ELSE /\ galleryMsg' = GALLERY_FAILED_RESULTS
            /\ outcome' = "allfailed"
            /\ UNCHANGED <<placeholders, downloadHidden>>
    /\ errorBanner' = errorBanner
    /\ FanOutFinally

\* click on the generate button of the variant, up to its first await
FanOutClick ==
    /\ ~generateButton.disabled
    /\ outcome = "none"
    /\ IF promptInput = ""
       THEN /\ errorBanner' = displayError(MSG_ENTER_PROMPT)
            /\ outcome' = "validation"
            /\ UNCHANGED <<generateButton, galleryMsg, placeholders, downloadHidden, pc,
                           numberOfImages, originalButtonText, promptsToGenerate,
                           allGeneratedImages, netCalls, probeOut>>
       ELSE LET n == numImagesInput IN
            /\ originalButtonText' = generateButton.text
            /\ generateButton' = GeneratingButton
            /\ galleryMsg' = ""
            /\ downloadHidden' = TRUE
            /\ errorBanner' = hideError(errorBanner)
            /\ numberOfImages' = n
            /\ placeholders' = [j \in 1..n |-> LoadingSlot]
            /\ allGeneratedImages' = <<>>
            /\ promptsToGenerate' = <<>>
            /\ outcome' = "running"
            /\ probeOut' = probeOut
            /\ IF diverseSubjectsChecked
               THEN /\ netCalls' = <<NetCall("getDiversePrompts", promptInput, n, 0)>>
                    /\ pc' = "fan_diversify"
               ELSE /\ netCalls' = <<NetCall("generateImages", promptInput, n, 0)>>
                    /\ pc' = "fan_batch"
    /\ UNCHANGED fanOutFrame

\* the diversifier request settles: one generateImages request per prompt is
\* issued, all before the next await
FanOutDiversifierReturns ==
    /\ pc = "fan_diversify"
    /\ \E resp \in DivResponses(numberOfImages) :
         LET r == getDiversePrompts(resp) IN
         IF r.threw
         THEN /\ FanOutCatch(r.message)
              /\ UNCHANGED <<promptsToGenerate, netCalls, probeOut>>
         ELSE /\ promptsToGenerate' = r.prompts
              /\ netCalls' = netCalls \o [k \in 1..Len(r.prompts) |->
                                             NetCall("generateImages", r.prompts[k], 1, k)]
              /\ probeOut' = [fn |-> "Promise.all",
                              responses |-> [k \in 1..Len(r.prompts) |-> Pending]]
              /\ pc' = "fan_wait"
              /\ UNCHANGED <<generateButton, galleryMsg, placeholders, downloadHidden,
                             errorBanner, allGeneratedImages, outcome>>
    /\ UNCHANGED <<fanOutFrame, numberOfImages, originalButtonText>>

\* one of the requests issued together settles, in any order
FanOutCallSettles ==
    /\ pc = "fan_wait"
    /\ \E k \in DOMAIN probeOut.responses :
         /\ probeOut.responses[k] = Pending
         /\ \E resp \in BulkResponses(1) :
              probeOut' = [probeOut EXCEPT !.responses[k] = resp]
    /\ UNCHANGED <<fanOutFrame, generateButton, galleryMsg, placeholders, downloadHidden,
                   errorBanner, pc, numberOfImages, originalButtonText, promptsToGenerate,
                   allGeneratedImages, netCalls, outcome>>

\* await Promise.all: rejected as soon as one request is, fulfilled with the
\* responses in the order of the prompts when all are
FanOutJoin ==
    /\ pc = "fan_wait"
    /\ LET responses == probeOut.responses IN
       IF \E k \in DOMAIN responses : responses[k].kind = "raise"
       THEN FanOutCatch(ERR_NETWORK)
       ELSE /\ \A k \in DOMAIN responses : responses[k].kind = "ok"
            /\ FanOutRender(Flatten(responses), promptsToGenerate)
    /\ UNCHANGED <<fanOutFrame, numberOfImages, originalButtonText, promptsToGenerate,
                   netCalls, probeOut>>

\* diversify off: the one request for all images settles
FanOutBatchReturns ==
    /\ pc = "fan_batch"
    /\ \E resp \in BulkResponses(numberOfImages) :
         IF resp.kind = "raise"
         THEN FanOutCatch(ERR_NETWORK)
         ELSE FanOutRender(resp.generatedImages,
                           ConstantPlan(promptInput, Len(resp.generatedImages)))
    /\ UNCHANGED <<fanOutFrame, numberOfImages, originalButtonText, promptsToGenerate,
                   netCalls, probeOut>>

InitFanOut ==
    /\ promptInput \in BasePrompts
    /\ numImagesInput \in Counts
    /\ generationModelSelect = IMAGEN
    /\ diverseSubjectsChecked \in BOOLEAN
    /\ InitPage
    /\ generationHistory = <<>>
    /\ storage = AbsentKey
    /\ probeIn = NoProbe
    /\ probeOut = NoProbe

NextFanOut ==
    \/ FanOutClick
    \/ FanOutDiversifierReturns
    \/ FanOutCallSettles
    \/ FanOutJoin
    \/ FanOutBatchReturns

SpecFanOut == InitFanOut /\ [][NextFanOut]_vars

\* the run of the variant rendered the images of its requests issued together
FanOutRendered == pc = "idle" /\ outcome = "success" /\ probeOut # NoProbe

\* C39: in the fan-out variant the image in container j is the one the
\* request for the j-th diversified prompt returned, shown with that prompt
\* (the prompt its caption is asked with), whatever each request returned
C39_FanOutMatchedByIndex ==
    FanOutRendered =>
        \A j \in DOMAIN placeholders :
            placeholders[j].kind = "image" =>
                /\ j \in DOMAIN probeOut.responses
                /\ probeOut.responses[j].generatedImages # <<>>
                /\ placeholders[j].image = probeOut.responses[j].generatedImages[1].imageBytes
                /\ placeholders[j].prompt = promptsToGenerate[j]

\* ------------------------------------------------- downloadAllImages (C40)
DOWNLOAD_LABEL  == "Download All"              \* the text of the button in the page
ZIPPING_LABEL   == "Zipping..."
MSG_NO_IMAGES   == "No images to download."
MSG_ZIP_FAILED  == "Could not create ZIP file."
ERR_ZIP         == "zip error"                 \* message of an error raised by generateAsync

\* results of zip.generateAsync: the blob, or an error with or without message
ZipResults == {[kind |-> "ok", message |-> ""], [kind |-> "raise", message |-> ERR_ZIP],
               [kind |-> "raise", message |-> ""]}

\* img.src of the image of a container: the text before the comma and the
\* text after it
ImgSrc(slot) == <<"data:image/png;base64", slot.image>>

\* img.src.split(',')[1]
Base64Data(src) == src[2]

\* imageGallery.querySelectorAll('.image-wrapper img'), in document order
GalleryImages(containers) ==
    LET wrapped == SelectSeq(containers, LAMBDA slot : slot.kind = "image")
    IN  [k \in DOMAIN wrapped |-> ImgSrc(wrapped[k])]

\* mutant: the files are named by the index as it is
ZipFileName_fromZero(index) == <<"image_", index, ".png">>

\* `image_${index + 1}.png`
ZipFileName(index) == <<"image_", index + 1, ".png">>

\* zip.file(...) for every image, index counting from 0
ZipFiles(images) ==
    [k \in DOMAIN images |-> [name |-> ZipFileName(k - 1), data |-> Base64Data(images[k])]]

\* the download button, the local variables of downloadAllImages and the
\* archives handed to the browser
DownloadIdle ==
    [fn |-> "downloadAllImages",
     button |-> [text |-> DOWNLOAD_LABEL, disabled |-> FALSE],
     stage |-> "idle", originalButtonText |-> "", zip |-> <<>>, archives |-> <<>>]

\* click on the download button, up to the await of generateAsync or to the
\* return without images
DownloadAllClick ==
    /\ probeOut.stage = "idle"
    /\ ~downloadHidden
    /\ ~probeOut.button.disabled
    /\ LET images == GalleryImages(placeholders) IN
       IF Len(images) = 0
       THEN /\ errorBanner' = displayError(MSG_NO_IMAGES)
            /\ probeOut' = [probeOut EXCEPT
                               !.originalButtonText = probeOut.button.text,
                               !.button = [text |-> probeOut.button.text, disabled |-> FALSE]]
       ELSE /\ errorBanner' = errorBanner
            /\ probeOut' = [probeOut EXCEPT
                               !.originalButtonText = probeOut.button.text,
                               !.button = [text |-> ZIPPING_LABEL, disabled |-> TRUE],
                               !.zip = ZipFiles(images),
                               !.stage = "zipping"]
    /\ UNCHANGED <<inputVars, probeIn, now, runVars, obsVars, placeholders, dbTasks, netCalls,
                   generateButton, galleryMsg, downloadHidden, progress, uiCounts,
                   totalGeneratedCount, generationHistory, storage>>

\* zip.generateAsync settles: the archive goes to the browser, or the catch
\* block shows the error; then finally
ZipSettles ==
    /\ probeOut.stage = "zipping"
    /\ \E res \in ZipResults :
         /\ errorBanner' = IF res.kind = "raise"
                           THEN displayError(IF res.message = "" THEN MSG_ZIP_FAILED
                                             ELSE res.message)
                           ELSE errorBanner
         /\ probeOut' = [probeOut EXCEPT
                            !.archives = IF res.kind = "ok"
                                         THEN Append(@, [name |-> <<"imagen_gallery_", now, ".zip">>,
                                                         files |-> probeOut.zip])
                                         ELSE @,
                            !.zip = <<>>,
                            !.stage = "idle",
                            !.button = [text |-> probeOut.originalButtonText,
                                        disabled |-> FALSE]]
    /\ UNCHANGED <<inputVars, probeIn, now, runVars, obsVars, placeholders, dbTasks, netCalls,
                   generateButton, galleryMsg, downloadHidden, progress, uiCounts,
                   totalGeneratedCount, generationHistory, storage>>

\* the page with the image model selected
InitZip ==
    /\ promptInput = "fox"
    /\ numImagesInput \in Counts
    /\ generationModelSelect = IMAGEN
    /\ diverseSubjectsChecked = FALSE
    /\ InitPage
    /\ generationHistory = <<>>
    /\ storage = AbsentKey
    /\ probeIn = NoProbe
    /\ probeOut = DownloadIdle

\* a click on the download button while the browser got few archives
ZipClick == Len(probeOut.archives) < MaxArchives /\ DownloadAllClick

\* one run, the error events of its images, and downloads
NextZip ==
    \/ FirstClick
    \/ BatchGenReturns
    \/ BatchCaptionReturns
    \/ ImgError
    \/ ZipClick
    \/ ZipSettles

SpecZip == InitZip /\ [][NextZip]_vars

\* the file the archive has for the k-th image shown
FileOfShown(k) == [name |-> <<"image_", k, ".png">>, data |-> placeholders[NthSucc(k)].image]

\* the download button as it is in the page
ButtonRestored == probeOut.button = [text |-> DOWNLOAD_LABEL, disabled |-> FALSE]

\* C40: a click on the download button with k > 0 images in the gallery
\* packs k files, image_1 .. image_k, the k-th with the bytes of the k-th
\* image shown, and the archive handed to the browser is made of them; with
\* no image shown the click shows an error and no archive is made; whenever
\* no packaging is under way, after a failure as well, the button is enabled
\* under its label
C40_ArchiveOfDisplayedImages ==
    /\ [](probeOut.stage = "idle" => ButtonRestored)
    /\ [][/\ DownloadAllClick =>
               IF SuccIdx = {}
               THEN /\ errorBanner' = displayError(MSG_NO_IMAGES)
                    /\ probeOut'.archives = probeOut.archives
                    /\ probeOut'.stage = "idle"
                    /\ ButtonRestored'
               ELSE /\ Len(probeOut'.zip) = Cardinality(SuccIdx)
                    /\ \A k \in 1..Cardinality(SuccIdx) : probeOut'.zip[k] = FileOfShown(k)
                    /\ probeOut'.stage = "zipping"
          /\ ZipSettles =>
               /\ probeOut'.stage = "idle"
               /\ ButtonRestored'
               /\ \/ /\ Len(probeOut'.archives) = Len(probeOut.archives) + 1
                     /\ probeOut'.archives[Len(probeOut'.archives)].files = probeOut.zip
                     /\ errorBanner' = errorBanner
                  \/ /\ probeOut'.archives = probeOut.archives
                     /\ errorBanner' \in {displayError(ERR_ZIP), displayError(MSG_ZIP_FAILED)}]_vars

\* after a run that got every image asked for, more than one and all shown,
\* the browser got an archive with one file for each, the last one named by
\* their number and holding the bytes of the last image
C40_Witness ==
    /\ RunEnded
    /\ outcome = "success"
    /\ numberOfImages = MaxCount
    /\ Cardinality(SuccIdx) = numberOfImages
    /\ Len(allGeneratedImages) = numberOfImages
    /\ probeOut.stage = "idle"
    /\ Len(probeOut.archives) = 1
    /\ Len(probeOut.archives[1].files) = numberOfImages
    /\ probeOut.archives[1].files[numberOfImages] = FileOfShown(numberOfImages)
    /\ placeholders[1].image # placeholders[numberOfImages].image
    /\ ButtonRestored
====
